---- MODULE Spec2Model ----
(***************************************************************************)
(* AMiGA grow-box backend: the stepper-pump driver (backend/pumps.py), the *)
(* calibration store (backend/config_store.py), the grow light             *)
(* (backend/light.py), the irrigation cycle (backend/control.py) and the   *)
(* scheduler tick (backend/grow_scheduler.py), as one state machine.       *)
(*                                                                         *)
(* Every caller (a request thread, the irrigation cycle, the scheduler) is *)
(* a thread t with a program counter pc[t]; one action is one statement    *)
(* (or one straight-line group of statements that touches no state another *)
(* thread can see in between) of the Python source.                        *)
(***************************************************************************)
EXTENDS Integers, Sequences, FiniteSets, TLC

\* ------------------------------------------------------------------ bounds
MaxPulses == 1
\* the days the clock runs through are 1..MaxDay
MaxDay == 2

\* --------------------------------------------------------------- constants
\* settings.PUMP_PINS, in the order the dict is iterated
PumpOrder == <<"food", "water">>
Pumps == {PumpOrder[i] : i \in 1..Len(PumpOrder)}
\* the callers: two request threads of the API's thread pool and the thread
\* grow_scheduler.start creates
Threads == {"req1", "req2", "sched"}
\* the threads that serve API requests; "sched" is the grow scheduler's thread
Requests == {"req1", "req2"}
DEFAULT_HZ == 10000
DEFAULT_DIR == "forward"

\* Python's None where the other values are strings
None == "None"
\* `self._handle = None`: no handle bound (handles themselves are >= 0)
NoHandle == -1
\* A line that no open chip handle has claimed: its level is not driven
Z == -1

\* lgpio.gpiochip_open returns a handle >= 0; the truth value of the handle
\* is what the code tests, so 0 and a positive handle are both modelled
Handles == {0, 1}

\* Durations are exact rationals <<numerator, denominator>>, denominator > 0
GCD(a, b) == CHOOSE g \in 1..(IF a > b THEN a ELSE b) :
                /\ a % g = 0 /\ b % g = 0
                /\ \A h \in (g+1)..(IF a > b THEN a ELSE b) : ~(a % h = 0 /\ b % h = 0)
Frac(n, d) == IF n = 0 THEN <<0, 1>> ELSE <<n \div GCD(n, d), d \div GCD(n, d)>>
Positive(q) == q[1] > 0

\* Python truthiness of a handle: None and 0 are both falsy
Truthy(h) == h # NoHandle /\ h # 0

VARIABLES
    mgrHandle,        \* PumpManager._handle
    handle,           \* StepperPump._handle, per pump
    hasEN,            \* whether the pump's pin map has an "EN" entry
    lock,             \* StepperPump._lock held?
    is_running,       \* StepperPump.is_running
    line,             \* level of each pump's STEP / DIR / EN line
    calibration_rate, \* StepperPump.calibration_rate (cached)
    store,            \* calibration.json: pump -> <<ml_per_sec>>, or <<>> (no entry)
    pc,               \* per thread: where it is
    call,             \* per thread: the operation in progress and its arguments
    acq,              \* per thread: run_multi_seconds' acquired_locks
    exc,              \* per thread: the exception in flight
    last,             \* per thread: how its latest call ended
    lightMgrHandle,   \* LightManager._handle
    lightHandle,      \* GrowLight._handle
    is_on,            \* GrowLight.is_on
    relay,            \* level of the light relay line
    mode,             \* GrowLight.mode
    day_start,        \* GrowLight.day_start, minutes since midnight
    day_end,          \* GrowLight.day_end
    now,              \* the wall clock's time of day, minutes since midnight
    lightLast,        \* how the latest light operation ended
    cycle,            \* per thread: the locals and the result of control_cycle_once
    today,            \* the wall clock's date, as a day number
    plantStatus,      \* plant_status.json: the stored status, or "missing"
    last_food_date,   \* scheduler_state.json: last_food_date (0 for "")
    tick,             \* the locals of the scheduler's tick
    sensorMgrHandle,  \* SensorManager._handle
    arrayHandle,      \* SensorArray._handle
    chans,            \* SensorArray._chans is non-empty
    arrayLock,        \* the thread that holds SensorArray._lock, or None
    snap,             \* per request thread: its SensorArray.snapshot call
    acqParams,        \* SensorArray.addr/gain, and those the ADC object was built with
    lifeLast,         \* how the latest manager shutdown call ended
    stop_flag,        \* grow_scheduler._stop_flag is set
    opens             \* gpiochip_open calls of the pump manager since its last close

pumpVars == <<mgrHandle, handle, hasEN, lock, is_running, line, calibration_rate, store>>
threadVars == <<pc, call, acq, exc, last>>
lightVars == <<lightMgrHandle, lightHandle, is_on, relay, mode, day_start, day_end, lightLast>>
clockVars == <<now, today>>
vars == <<mgrHandle, handle, hasEN, lock, is_running, line, calibration_rate, store,
          pc, call, acq, exc, last,
          lightMgrHandle, lightHandle, is_on, relay, mode, day_start, day_end, now,
          lightLast, cycle, today, plantStatus, last_food_date, tick,
          sensorMgrHandle, arrayHandle, chans, arrayLock, snap, acqParams, lifeLast,
          stop_flag,
          opens>>
schedVars == <<plantStatus, last_food_date, tick>>
sensorVars == <<sensorMgrHandle, arrayHandle, chans, arrayLock, snap, acqParams>>
lifeVars == <<sensorVars, lifeLast, stop_flag, opens>>
nonPumpVars == <<lightVars, clockVars, cycle, schedVars, lifeVars>>
nonLightVars == <<pumpVars, threadVars, clockVars, cycle, schedVars, lifeVars>>

\* A time of day h:m as minutes since midnight
HM(h, m) == h * 60 + m

NoExc == [kind |-> None, pump |-> None]

\* ------------------------------------------------------------ config_store
\* get_pump_calibration: None when the pump has no entry, else its ml_per_sec
\* (store[p] is <<>> for no entry and <<r>> for the rate r)
get_pump_calibration(p) == store[p]

\* StepperPump._load_calibration: `get_pump_calibration(name) or 0.0`
load_calibration(p) ==
    IF get_pump_calibration(p) = <<>> THEN 0 ELSE get_pump_calibration(p)[1]

\* ------------------------------------------------------------------ inputs
\* Direction strings a caller may pass: a canonical name, a synonym in upper
\* case, and a name the driver does not know
Directions == {"forward", "REV", "up"}
\* str.lower() on those
Lower(d) == IF d = "REV" THEN "rev" ELSE d
FwdNames == {"fwd", "forward", "cw"}
RevNames == {"rev", "reverse", "ccw", "back"}
\* hz and seconds of a request: the request models demand gt=0 of both
\* (api/models.py)
ValidRuns == {[seconds |-> Frac(1, 1), hz |-> DEFAULT_HZ]}
MlValues == {1, 3}
\* calibration.json as the process finds it: DEFAULT_CALIBRATION (the file is
\* missing or corrupt; 2 stands for the 4.436 ml/s of "water"), a file with
\* no entry for either pump, and a hand-edited file with a negative rate
DEFAULT_CALIBRATION == [p \in Pumps |-> IF p = "food" THEN <<0>> ELSE <<2>>]
InitialStores == {DEFAULT_CALIBRATION,
                  [p \in Pumps |-> <<>>],
                  [p \in Pumps |-> IF p = "food" THEN <<-1>> ELSE <<1>>]}
\* PumpCalibrationUpdate.ml_per_sec: Field(..., gt=0)
NewRates == {1, 2}
\* pump_names of a run_multi_seconds request
NameLists == {<<"food", "water">>, <<"water", "food">>, <<"water">>, <<"food", "food">>}
\* the pin maps: every pump has an "EN" entry (what StepperPump expects), or
\* none has (settings.PUMP_PINS as shipped)
PinMaps == {[p \in Pumps |-> TRUE], [p \in Pumps |-> FALSE]}

\* ------------------------------------------------------------------- state
\* A call: the operation, its arguments, the loop index i, where the caller
\* goes on when it ends (ret: "idle" for a request), and two records
\* kept for the properties: w, the kinds of line writes the call has made,
\* and overlapped, whether another caller was turned away from the pump
\* while this call held its guard; asked is <<>>, or <<a>> for the hz,
\* seconds and direction a the caller passed, kept as passed; target is <<>>,
\* or <<on>> for the `not self.is_on` a toggle call has evaluated
NoArgs == [op |-> None, pump |-> None, names |-> <<>>, seconds |-> Frac(0, 1),
           hz |-> 0, dir |-> None, ml |-> 0, i |-> 0, w |-> {}, overlapped |-> FALSE,
           ret |-> "idle", asked |-> <<>>, target |-> <<>>]
\* How a call ended: "ok" or the exception (and the pump it names), and for
\* dispense_ml the fields of its result
\* dispense_ml the fields of its result; done counts the toggle calls of the
\* thread that have returned
NoLast == [op |-> None, status |-> None, pump |-> None, seconds |-> Frac(0, 1),
           ml |-> 0, rate |-> 0, overlapped |-> FALSE, asked |-> <<>>, done |-> 0]

\* The result of a light operation: "ok" or the exception, and the fields of
\* apply_daynight_now's result (within_window is <<>> for None)
NoLightLast == [op |-> None, status |-> None, applied |-> FALSE, within |-> <<>>,
                on |-> FALSE]

\* GrowLight.__init__
LightInit ==
    /\ lightMgrHandle = NoHandle
    /\ lightHandle = NoHandle
    /\ is_on = FALSE
    /\ relay = Z
    /\ mode = "manual"
    /\ day_start = HM(19, 0)
    /\ day_end = HM(7, 0)
    /\ lightLast = NoLightLast

\* The managers of the lifespan, and how the latest shutdown call on each
\* ended (None: not called yet)
Managers == {"pumps", "light", "sensors"}
NoLifeLast == [m \in Managers |-> None]

\* A snapshot call: where the thread is in it (pc), its samples argument, the
\* loop index i, the readings list (each reading stands for its "index"
\* field), the number of log_event calls and of time.sleep calls made, and
\* how the latest call ended ("ok" or the exception)
\* asked is <<>>, or <<p>> for the addr/gain p a request asked for; reported
\* is <<>>, or <<p>> for the addr/gain in the result returned
NoSnap == [pc |-> "idle", samples |-> 0, i |-> 0, readings |-> <<>>, logs |-> 0,
           sleeps |-> 0, status |-> None, asked |-> <<>>, reported |-> <<>>]

\* The (addr, gain) pairs: settings.DEFAULT_ADDR and DEFAULT_GAIN, and a pair
\* a request may name instead
Params == {"default", "other"}
\* SensorArray.__init__: the attributes hold the defaults, no ADC object yet
\* (ads is <<>>, or <<p>> for the pair the ADS1115 object was built with)
NoParams == [attr |-> "default", ads |-> <<>>]

\* control_cycle_once: its arguments, its locals and the fields of its result
\* (after is <<>> for None, <<v>> for a reading v); runs counts the
\* run_for_seconds calls it has issued, logfail the log sinks ("csv",
\* "master") whose append raised
NoCycle == [threshold |-> 0, vote_k |-> 0, irrigate_seconds |-> Frac(0, 1),
            before |-> <<>>, over |-> 0, triggered |-> FALSE, irrigated |-> FALSE,
            after |-> <<>>, runs |-> 0, logfail |-> {}]

\* What a tick read and did: the clock at its start, the plant status and
\* last_food_date it read, the dispense_ml calls it issued, how its dose ended;
\* and, kept from tick to tick for the properties, failed: the day of the
\* latest tick whose dispense_ml call raised
NoTick == [day |-> 0, minute |-> 0, status |-> None, last |-> 0, doses |-> 0,
           outcome |-> None, failed |-> 0, ran |-> 0, ignored |-> FALSE]

Init ==
    /\ LightInit
    /\ now = HM(6, 59)
    /\ today = 1
    /\ plantStatus = "missing"
    /\ last_food_date \in {0, 1}
    /\ tick = NoTick
    /\ sensorMgrHandle = NoHandle
    /\ arrayHandle = NoHandle
    /\ chans = FALSE
    /\ arrayLock = None
    /\ snap = [t \in Requests |-> NoSnap]
    /\ acqParams = NoParams
    /\ lifeLast = NoLifeLast
    /\ stop_flag = FALSE
    /\ opens = 0
    /\ cycle = [t \in Threads |-> NoCycle]
    /\ mgrHandle = NoHandle
    /\ handle = [p \in Pumps |-> NoHandle]
    /\ hasEN \in PinMaps
    /\ lock = [p \in Pumps |-> FALSE]
    /\ is_running = [p \in Pumps |-> FALSE]
    /\ line = [p \in Pumps |-> [STEP |-> Z, DIR |-> Z, EN |-> Z]]
    /\ store \in InitialStores
    \* StepperPump.__init__ loads the rate once, at construction
    /\ calibration_rate = [p \in Pumps |-> load_calibration(p)]
    /\ pc = [t \in Threads |-> "idle"]
    /\ call = [t \in Threads |-> NoArgs]
    /\ acq = [t \in Threads |-> <<>>]
    /\ exc = [t \in Threads |-> NoExc]
    /\ last = [t \in Threads |-> NoLast]

\* ------------------------------------------------------- PumpManager.startup
\* StepperPump.initialize binds the handle, claims STEP and DIR low, and then
\* claims pins["EN"] high: a pin map without "EN" raises KeyError there
initialize_raises(p) == ~hasEN[p]
initialize(p) == [STEP |-> 0, DIR |-> 0, EN |-> IF hasEN[p] THEN 1 ELSE Z]
\* the pumps the loop of startup reaches: every pump up to and including the
\* first whose initialize raises
Reached(p) ==
    \E i \in 1..Len(PumpOrder) :
        /\ PumpOrder[i] = p
        /\ \A j \in 1..(i-1) : ~initialize_raises(PumpOrder[j])

startup ==
    /\ mgrHandle = NoHandle
    /\ \E h \in Handles :
        /\ mgrHandle' = h
        /\ handle' = [p \in Pumps |-> IF Reached(p) THEN h ELSE handle[p]]
        /\ line' = [p \in Pumps |-> IF Reached(p) THEN initialize(p) ELSE line[p]]
    /\ opens' = opens + 1
    /\ UNCHANGED <<hasEN, lock, is_running, calibration_rate, store, threadVars>>
    /\ UNCHANGED <<lightVars, clockVars, cycle, schedVars, sensorVars, lifeLast, stop_flag>>

\* ----------------------------------------------------------- thread helpers
Pc(t, l) == pc' = [pc EXCEPT ![t] = l]
Exc(kind, p) == [kind |-> kind, pump |-> p]
Raised(e) == e # NoExc

\* A caller enters an operation: its arguments, nothing acquired, no
\* exception in flight, and the outcome of its previous call forgotten
Enter(t, args, l) ==
    /\ pc[t] = "idle"
    /\ call' = [call EXCEPT ![t] = args]
    /\ last' = [last EXCEPT ![t] = NoLast]
    /\ Pc(t, l)
    /\ UNCHANGED <<acq, exc>>

\* The call of thread t ends: it returns (e is NoExc) or raises e to the
\* caller, which turns it into the response
FinishFrom(t, e, calls) ==
    /\ Pc(t, call[t].ret)
    /\ last' = [last EXCEPT ![t] =
                  [NoLast EXCEPT !.op = call[t].op,
                                 !.status = IF Raised(e) THEN e.kind ELSE "ok",
                                 !.pump = IF Raised(e) THEN e.pump ELSE None,
                                 !.overlapped = call[t].overlapped,
                                 !.asked = call[t].asked]]
    /\ call' = [calls EXCEPT ![t] = NoArgs]
    /\ acq' = [acq EXCEPT ![t] = <<>>]
    /\ exc' = [exc EXCEPT ![t] = NoExc]
Finish(t, e) == FinishFrom(t, e, call)

\* ------------------------------------------- StepperPump.run_for_seconds
\* Where a thread goes when the run_for_seconds it called returns or raises:
\* dispense_ml and control_cycle_once go on with their own code after a
\* normal return; an exception leaves them at once (they have no handler)
AfterRun(t, e) ==
    IF ~Raised(e) /\ call[t].op = "dispense_ml"
    THEN /\ Pc(t, "dml_result")
         /\ UNCHANGED <<call, acq, exc, last>>
    ELSE IF ~Raised(e) /\ call[t].op = "control_cycle"
    THEN /\ Pc(t, "cc_after")
         /\ UNCHANGED <<call, acq, exc, last>>
    ELSE Finish(t, e)

\* A guard that never refuses
try_acquire_blind(p) == TRUE
\* StepperPump._lock.acquire(blocking=False): TRUE when the lock was free
try_acquire(p) == ~lock[p]

\* Thread u is inside run_for_seconds on pump p, between the acquire and the
\* release of the guard
RfsHolding == {"rfs_setup", "rfs_step", "rfs_high", "rfs_low", "rfs_finally"}
RunInFlight(u, p) == pc[u] \in RfsHolding /\ call[u].pump = p
\* the calls, with the one that holds p's guard marked as overlapped
MarkOverlap(p) ==
    [u \in Threads |-> IF RunInFlight(u, p) THEN [call[u] EXCEPT !.overlapped = TRUE]
                       ELSE call[u]]

\* lines 95-98: the non-blocking acquire; a held lock raises at once, a free
\* one is taken and the running flag set
rfs_acquire(t) ==
    /\ pc[t] = "rfs_acquire"
    /\ LET p == call[t].pump IN
        IF try_acquire(p)
        THEN /\ lock' = [lock EXCEPT ![p] = TRUE]
             /\ is_running' = [is_running EXCEPT ![p] = TRUE]
             /\ Pc(t, "rfs_setup")
             /\ UNCHANGED <<call, acq, exc, last>>
        ELSE /\ FinishFrom(t, Exc("AlreadyRunning", p), MarkOverlap(p))
             /\ UNCHANGED <<lock, is_running>>
    /\ UNCHANGED <<mgrHandle, handle, hasEN, line, calibration_rate, store>>
    /\ UNCHANGED nonPumpVars

\* StepperPump._set_direction (lines 49-60): what it raises, or NoExc
set_direction_raises(p, d) ==
    IF ~Truthy(handle[p]) THEN Exc("NotInitialized", p)
    ELSE IF Lower(d) \in FwdNames \cup RevNames THEN NoExc
    ELSE Exc("InvalidDirection", p)
\* and the lines after it: DIR high for forward, low for reverse
set_direction(p, d, ln) ==
    IF Raised(set_direction_raises(p, d)) THEN ln
    ELSE [ln EXCEPT ![p]["DIR"] = IF Lower(d) \in FwdNames THEN 1 ELSE 0]

\* The enable line driven with the polarity reversed
enable_driver_inverted(p, enable, ln) ==
    IF ~Truthy(handle[p]) \/ ~hasEN[p] THEN ln
    ELSE [ln EXCEPT ![p]["EN"] = IF enable THEN 1 ELSE 0]

\* StepperPump._enable_driver (lines 62-66): a falsy handle returns without
\* writing; otherwise pins["EN"] is looked up (KeyError without it) and
\* written, active LOW
enable_driver_raises(p) ==
    IF ~Truthy(handle[p]) THEN NoExc
    ELSE IF ~hasEN[p] THEN Exc("KeyError", p)
    ELSE NoExc
enable_driver(p, enable, ln) ==
    IF ~Truthy(handle[p]) \/ ~hasEN[p] THEN ln
    ELSE [ln EXCEPT ![p]["EN"] = IF enable THEN 0 ELSE 1]

\* `_set_direction(direction); _enable_driver(True)` on a pump whose lock the
\* caller holds: the exception of the first statement that raises, and the
\* lines as the statements before it left them
setup_raises(p, d) ==
    IF Raised(set_direction_raises(p, d)) THEN set_direction_raises(p, d)
    ELSE enable_driver_raises(p)
setup_lines(p, d, ln) ==
    IF Raised(set_direction_raises(p, d)) THEN ln
    ELSE enable_driver(p, TRUE, set_direction(p, d, ln))
\* the kinds of gpio_write those statements perform
enable_driver_writes(p, enable) ==
    IF ~Truthy(handle[p]) \/ ~hasEN[p] THEN {}
    ELSE IF enable THEN {"EN_on"} ELSE {"EN_off"}
setup_writes(p, d) ==
    IF Raised(set_direction_raises(p, d)) THEN {}
    ELSE {"DIR"} \cup enable_driver_writes(p, TRUE)

\* lines 100-101, inside the try
rfs_setup(t) ==
    /\ pc[t] = "rfs_setup"
    /\ LET p == call[t].pump
           e == setup_raises(p, call[t].dir) IN
        /\ line' = setup_lines(p, call[t].dir, line)
        /\ exc' = [exc EXCEPT ![t] = e]
        /\ call' = [call EXCEPT ![t].dir = None, ![t].w = @ \cup setup_writes(p, call[t].dir)]
        /\ Pc(t, IF Raised(e) THEN "rfs_finally" ELSE "rfs_step")
    /\ UNCHANGED <<mgrHandle, handle, hasEN, lock, is_running, calibration_rate, store,
                   acq, last>>
    /\ UNCHANGED nonPumpVars

\* StepperPump._step_loop, lines 70-73: the checks before the loop
step_loop_raises(hz) == hz <= 0
step_loop_returns(seconds) == ~Positive(seconds)

\* line 102: _step_loop up to its loop; `while time.time() < end_time` is
\* the clock's to decide, and the model lets it end the loop after any
\* number of pulses up to MaxPulses
rfs_step(t) ==
    /\ pc[t] = "rfs_step"
    /\ \/ /\ step_loop_raises(call[t].hz)
          /\ exc' = [exc EXCEPT ![t] = Exc("InvalidParameter", call[t].pump)]
          /\ Pc(t, "rfs_finally")
       \/ /\ ~step_loop_raises(call[t].hz)
          /\ step_loop_returns(call[t].seconds)
          /\ Pc(t, "rfs_finally")
          /\ UNCHANGED exc
       \/ /\ ~step_loop_raises(call[t].hz)
          /\ ~step_loop_returns(call[t].seconds)
          /\ \E l \in {"rfs_high", "rfs_finally"} : Pc(t, l)
          /\ UNCHANGED exc
    /\ call' = [call EXCEPT ![t].hz = 0, ![t].i = 0]
    /\ UNCHANGED <<pumpVars, acq, last>>
    /\ UNCHANGED nonPumpVars

\* lines 81-82: STEP high; the write may raise (lgpio.error), which is how
\* the pulse step itself throws
rfs_high(t) ==
    /\ pc[t] = "rfs_high"
    /\ \/ /\ line' = [line EXCEPT ![call[t].pump]["STEP"] = 1]
          /\ call' = [call EXCEPT ![t].w = @ \cup {"STEP"}]
          /\ Pc(t, "rfs_low")
          /\ UNCHANGED exc
       \/ /\ exc' = [exc EXCEPT ![t] = Exc("HardwareIOFailure", call[t].pump)]
          /\ Pc(t, "rfs_finally")
          /\ UNCHANGED <<line, call>>
    /\ UNCHANGED <<mgrHandle, handle, hasEN, lock, is_running, calibration_rate, store,
                   acq, last>>
    /\ UNCHANGED nonPumpVars

\* lines 83-84 and the loop test: STEP low, one pulse done
rfs_low(t) ==
    /\ pc[t] = "rfs_low"
    /\ line' = [line EXCEPT ![call[t].pump]["STEP"] = 0]
    /\ \/ /\ call[t].i + 1 < MaxPulses
          /\ call' = [call EXCEPT ![t].i = @ + 1]
          /\ Pc(t, "rfs_high")
       \/ /\ call' = [call EXCEPT ![t].i = 0]
          /\ Pc(t, "rfs_finally")
    /\ UNCHANGED <<mgrHandle, handle, hasEN, lock, is_running, calibration_rate, store,
                   acq, exc, last>>
    /\ UNCHANGED nonPumpVars

\* lines 103-106, the finally block: an exception raised by its first
\* statement replaces the one in flight and skips the rest of the block;
\* otherwise the exception in flight is re-raised after it, or the event is
\* logged (a log failure is caught, line 118) and the result returned
rfs_finally(t) ==
    /\ pc[t] = "rfs_finally"
    /\ LET p == call[t].pump
           e == enable_driver_raises(p) IN
        /\ line' = enable_driver(p, FALSE, line)
        /\ IF Raised(e)
           THEN /\ AfterRun(t, e)
                /\ UNCHANGED <<is_running, lock>>
           ELSE /\ is_running' = [is_running EXCEPT ![p] = FALSE]
                /\ lock' = [lock EXCEPT ![p] = FALSE]
                /\ AfterRun(t, exc[t])
    /\ UNCHANGED <<mgrHandle, handle, hasEN, calibration_rate, store>>
    /\ UNCHANGED nonPumpVars

RunArgs(p, r, d) ==
    [NoArgs EXCEPT !.op = "run_for_seconds", !.pump = p, !.seconds = r.seconds,
                   !.hz = r.hz, !.dir = d]

\* A request thread (api.routers.pumps.api_run_pump_seconds) enters
\* run_for_seconds
call_run_for_seconds(t, pumps, dirs) ==
    /\ mgrHandle # NoHandle
    /\ \E p \in pumps, r \in ValidRuns, d \in dirs :
        Enter(t, RunArgs(p, r, d), "rfs_acquire")
    /\ UNCHANGED pumpVars
    /\ UNCHANGED nonPumpVars

run_for_seconds(t) ==
    \/ rfs_acquire(t) \/ rfs_setup(t) \/ rfs_step(t)
    \/ rfs_high(t) \/ rfs_low(t) \/ rfs_finally(t)

\* ------------------------------------------------- StepperPump.calibrate
\* line 173: run_for_seconds(run_seconds, hz, DEFAULT_DIR); the log and the
\* returned message that follow touch no state
call_calibrate(t) ==
    /\ mgrHandle # NoHandle
    /\ \E p \in Pumps, r \in ValidRuns :
        Enter(t, [RunArgs(p, r, DEFAULT_DIR) EXCEPT !.op = "calibrate"], "rfs_acquire")
    /\ UNCHANGED pumpVars
    /\ UNCHANGED nonPumpVars

\* ----------------------------------------------- StepperPump.dispense_ml
\* lines 138-144: refresh_calibration stores the reloaded rate in the pump;
\* a rate <= 0 raises before anything is acquired; else seconds = ml / rate
dispense_seconds(ml, rate) == Frac(ml, rate)

\* The rate the pump already holds, taken without asking the store
refresh_calibration_stale(p) == calibration_rate[p]
\* StepperPump.refresh_calibration: the value calibration_rate is set to
refresh_calibration(p) == load_calibration(p)

dml_begin(t) ==
    /\ pc[t] = "dml_begin"
    /\ LET p == call[t].pump
           rate == refresh_calibration(p) IN
        /\ calibration_rate' = [calibration_rate EXCEPT ![p] = rate]
        /\ IF rate <= 0
           THEN Finish(t, Exc("CalibrationMissing", p))
           ELSE /\ call' = [call EXCEPT ![t].seconds = dispense_seconds(call[t].ml, rate)]
                /\ Pc(t, "rfs_acquire")
                /\ UNCHANGED <<acq, exc, last>>
    /\ UNCHANGED <<mgrHandle, handle, hasEN, lock, is_running, line, store>>
    /\ UNCHANGED nonPumpVars

\* lines 150-169: the result of the run, with the volume and the rate the
\* pump holds now added to it
dml_result(t) ==
    /\ pc[t] = "dml_result"
    /\ Pc(t, call[t].ret)
    /\ last' = [last EXCEPT ![t] =
                  [NoLast EXCEPT !.op = "dispense_ml", !.status = "ok",
                                 !.seconds = call[t].seconds, !.ml = call[t].ml,
                                 !.rate = calibration_rate[call[t].pump]]]
    /\ call' = [call EXCEPT ![t] = NoArgs]
    /\ UNCHANGED <<pumpVars, acq, exc>>
    /\ UNCHANGED nonPumpVars

call_dispense_ml(t, volumes, dirs) ==
    /\ mgrHandle # NoHandle
    /\ \E p \in Pumps, ml \in volumes, d \in dirs :
        Enter(t, [NoArgs EXCEPT !.op = "dispense_ml", !.pump = p, !.ml = ml,
                                !.hz = DEFAULT_HZ, !.dir = d], "dml_begin")
    /\ UNCHANGED pumpVars
    /\ UNCHANGED nonPumpVars

dispense_ml(t) == dml_begin(t) \/ dml_result(t)

\* config_store.set_pump_calibration, from POST /pump/calibration
set_pump_calibration(pumps, rates) ==
    /\ \E p \in pumps, r \in rates :
        /\ store[p] # <<r>>
        /\ store' = [store EXCEPT ![p] = <<r>>]
    /\ UNCHANGED <<mgrHandle, handle, hasEN, lock, is_running, line, calibration_rate,
                   threadVars>>
    /\ UNCHANGED nonPumpVars

\* ------------------------------------------ PumpManager.run_multi_seconds
\* lines 259-262: a falsy manager handle raises before anything is acquired
m_begin(t) ==
    /\ pc[t] = "m_begin"
    /\ IF ~Truthy(mgrHandle)
       THEN Finish(t, Exc("NotInitialized", None))
       ELSE /\ Pc(t, "m_acquire")
            /\ call' = [call EXCEPT ![t].i = 1]
            /\ UNCHANGED <<acq, exc, last>>
    /\ UNCHANGED pumpVars
    /\ UNCHANGED nonPumpVars

\* An acquisition loop that sets each pump up as soon as it holds its guard
m_acquire_eager(t) ==
    /\ pc[t] = "m_acquire"
    /\ LET p == call[t].names[call[t].i] IN
        IF try_acquire(p)
        THEN /\ lock' = [lock EXCEPT ![p] = TRUE]
             /\ acq' = [acq EXCEPT ![t] = Append(@, p)]
             /\ line' = setup_lines(p, call[t].dir, line)
             /\ IF call[t].i < Len(call[t].names)
                THEN /\ call' = [call EXCEPT ![t].i = @ + 1,
                                             ![t].w = @ \cup setup_writes(p, call[t].dir)]
                     /\ UNCHANGED pc
                ELSE /\ call' = [call EXCEPT ![t].i = 1,
                                             ![t].w = @ \cup setup_writes(p, call[t].dir)]
                     /\ Pc(t, "m_setup")
             /\ UNCHANGED exc
        ELSE /\ exc' = [exc EXCEPT ![t] = Exc("AlreadyRunning", p)]
             /\ call' = [call EXCEPT ![t].i = 1]
             /\ Pc(t, "m_finally")
             /\ UNCHANGED <<lock, acq, line>>
    /\ UNCHANGED <<mgrHandle, handle, hasEN, is_running, calibration_rate, store, last>>
    /\ UNCHANGED nonPumpVars

\* lines 267-271: one turn of the acquisition loop
m_acquire(t) ==
    /\ pc[t] = "m_acquire"
    /\ LET p == call[t].names[call[t].i] IN
        IF try_acquire(p)
        THEN /\ lock' = [lock EXCEPT ![p] = TRUE]
             /\ acq' = [acq EXCEPT ![t] = Append(@, p)]
             /\ IF call[t].i < Len(call[t].names)
                THEN /\ call' = [call EXCEPT ![t].i = @ + 1]
                     /\ UNCHANGED pc
                ELSE /\ call' = [call EXCEPT ![t].i = 1]
                     /\ Pc(t, "m_setup")
             /\ UNCHANGED exc
        ELSE /\ exc' = [exc EXCEPT ![t] = Exc("AlreadyRunning", p)]
             /\ call' = [call EXCEPT ![t].i = 1]
             /\ Pc(t, "m_finally")
             /\ UNCHANGED <<lock, acq>>
    /\ UNCHANGED <<mgrHandle, handle, hasEN, is_running, line, calibration_rate, store,
                   last>>
    /\ UNCHANGED nonPumpVars

\* lines 274-277: one turn of the setup loop
m_setup(t) ==
    /\ pc[t] = "m_setup"
    /\ LET p == call[t].names[call[t].i]
           e == setup_raises(p, call[t].dir) IN
        /\ is_running' = [is_running EXCEPT ![p] = TRUE]
        /\ line' = setup_lines(p, call[t].dir, line)
        /\ exc' = [exc EXCEPT ![t] = e]
        /\ IF Raised(e)
           THEN /\ call' = [call EXCEPT ![t].i = 1, ![t].dir = None,
                                        ![t].w = @ \cup setup_writes(p, call[t].dir)]
                /\ Pc(t, "m_finally")
           ELSE IF call[t].i < Len(call[t].names)
           THEN /\ call' = [call EXCEPT ![t].i = @ + 1,
                                        ![t].w = @ \cup setup_writes(p, call[t].dir)]
                /\ UNCHANGED pc
           ELSE /\ call' = [call EXCEPT ![t].i = 0, ![t].dir = None,
                                        ![t].w = @ \cup setup_writes(p, call[t].dir)]
                /\ Pc(t, "m_step")
    /\ UNCHANGED <<mgrHandle, handle, hasEN, lock, calibration_rate, store, acq, last>>
    /\ UNCHANGED nonPumpVars

\* step_for_seconds_multi, lines 199-202 and the first loop test
m_step(t) ==
    /\ pc[t] = "m_step"
    /\ \/ /\ step_loop_raises(call[t].hz)
          /\ exc' = [exc EXCEPT ![t] = Exc("InvalidParameter", None)]
          /\ call' = [call EXCEPT ![t].hz = 0, ![t].i = 1]
          /\ Pc(t, "m_finally")
       \/ /\ ~step_loop_raises(call[t].hz)
          /\ step_loop_returns(call[t].seconds)
          /\ call' = [call EXCEPT ![t].hz = 0, ![t].i = 1]
          /\ Pc(t, "m_finally")
          /\ UNCHANGED exc
       \/ /\ ~step_loop_raises(call[t].hz)
          /\ ~step_loop_returns(call[t].seconds)
          /\ \/ /\ call' = [call EXCEPT ![t].hz = 0, ![t].i = 0]
                /\ Pc(t, "m_high")
             \/ /\ call' = [call EXCEPT ![t].hz = 0, ![t].i = 1]
                /\ Pc(t, "m_finally")
          /\ UNCHANGED exc
    /\ UNCHANGED <<pumpVars, acq, last>>
    /\ UNCHANGED nonPumpVars

\* A pulse loop that drives the first named pump only
write_steps_first(names, level, ln) ==
    [ln EXCEPT ![names[1]].STEP = level]
\* the STEP lines of the named pumps (PUMP_PINS[p]["STEP"]) all at one level
write_steps(names, level, ln) ==
    [p \in Pumps |-> IF \E k \in 1..Len(names) : names[k] = p
                     THEN [ln[p] EXCEPT !.STEP = level] ELSE ln[p]]

\* lines 211-213: every STEP line high, then the half-period sleep
m_high(t) ==
    /\ pc[t] = "m_high"
    /\ \/ /\ line' = write_steps(call[t].names, 1, line)
          /\ call' = [call EXCEPT ![t].w = @ \cup {"STEP"}]
          /\ Pc(t, "m_low")
          /\ UNCHANGED exc
       \/ /\ exc' = [exc EXCEPT ![t] = Exc("HardwareIOFailure", None)]
          /\ call' = [call EXCEPT ![t].i = 1]
          /\ Pc(t, "m_finally")
          /\ UNCHANGED line
    /\ UNCHANGED <<mgrHandle, handle, hasEN, lock, is_running, calibration_rate, store,
                   acq, last>>
    /\ UNCHANGED nonPumpVars

\* lines 214-216 and the loop test: every STEP line low, one pulse done
m_low(t) ==
    /\ pc[t] = "m_low"
    /\ line' = write_steps(call[t].names, 0, line)
    /\ \/ /\ call[t].i + 1 < MaxPulses
          /\ call' = [call EXCEPT ![t].i = @ + 1]
          /\ Pc(t, "m_high")
       \/ /\ call' = [call EXCEPT ![t].i = 1]
          /\ Pc(t, "m_finally")
    /\ UNCHANGED <<mgrHandle, handle, hasEN, lock, is_running, calibration_rate, store,
                   acq, exc, last>>
    /\ UNCHANGED nonPumpVars

\* lines 282-287, the finally block: one turn of the teardown loop over
\* acquired_locks. An exception raised by _enable_driver leaves the loop and
\* the block at once, with the lock of that pump and of the pumps after it
\* still held
m_finally(t) ==
    /\ pc[t] = "m_finally"
    /\ IF call[t].i > Len(acq[t])
       THEN /\ Finish(t, exc[t])
            /\ UNCHANGED <<line, is_running, lock>>
       ELSE LET p == acq[t][call[t].i]
                e == enable_driver_raises(p) IN
            /\ line' = enable_driver(p, FALSE, line)
            /\ IF Raised(e)
               THEN /\ Finish(t, e)
                    /\ UNCHANGED <<is_running, lock>>
               ELSE /\ is_running' = [is_running EXCEPT ![p] = FALSE]
                    /\ lock' = [lock EXCEPT ![p] = FALSE]
                    /\ call' = [call EXCEPT ![t].i = @ + 1,
                                            ![t].w = @ \cup enable_driver_writes(p, FALSE)]
                    /\ UNCHANGED <<pc, acq, exc, last>>
    /\ UNCHANGED <<mgrHandle, handle, hasEN, calibration_rate, store>>
    /\ UNCHANGED nonPumpVars

call_run_multi_seconds(t) ==
    /\ mgrHandle # NoHandle
    /\ \E ns \in NameLists, r \in ValidRuns, d \in Directions :
        Enter(t, [NoArgs EXCEPT !.op = "run_multi_seconds", !.names = ns,
                                !.seconds = r.seconds, !.hz = r.hz, !.dir = d], "m_begin")
    /\ UNCHANGED pumpVars
    /\ UNCHANGED nonPumpVars

run_multi_seconds(t) ==
    \/ m_begin(t) \/ m_acquire(t) \/ m_setup(t) \/ m_step(t)
    \/ m_high(t) \/ m_low(t) \/ m_finally(t)

\* ----------------------------------------------------------- specifications
NextPump ==
    \/ startup
    \/ \E t \in Requests :
        \/ call_run_for_seconds(t, Pumps, Directions) \/ run_for_seconds(t)
        \/ call_calibrate(t)
        \/ call_dispense_ml(t, {1}, Directions) \/ dispense_ml(t)
        \/ call_run_multi_seconds(t) \/ run_multi_seconds(t)

\* the pump driver under concurrent callers, on a fresh installation (no
\* calibration.json yet)
InitPump == Init /\ store = DEFAULT_CALIBRATION /\ last_food_date = 0
SpecPump == InitPump /\ [][NextPump]_vars

-----------------------------------------------------------------------------
\* Properties of the pump guard

Range(s) == {s[k] : k \in 1..Len(s)}
MultiHolding == {"m_acquire", "m_setup", "m_step", "m_high", "m_low"}
\* Thread t is inside run_multi_seconds holding the guard of p: acquired and
\* not yet released by the teardown loop
MultiInFlight(t, p) ==
    \/ pc[t] \in MultiHolding /\ p \in Range(acq[t])
    \/ pc[t] = "m_finally" /\ \E k \in call[t].i..Len(acq[t]) : acq[t][k] = p
InFlight(t, p) == RunInFlight(t, p) \/ MultiInFlight(t, p)
\* The next statement of t writes a line of p
Drives(t, p) ==
    \/ pc[t] \in {"rfs_setup", "rfs_high", "rfs_low", "rfs_finally"} /\ call[t].pump = p
    \/ pc[t] = "m_setup" /\ call[t].names[call[t].i] = p
    \/ pc[t] \in {"m_high", "m_low"} /\ p \in Range(call[t].names)
    \/ pc[t] = "m_finally" /\ call[t].i <= Len(acq[t]) /\ acq[t][call[t].i] = p

\* C1: for every pump at most one execution is in flight at any instant,
\* whichever operation (timed run, calibration, volume dispense, multi-pump
\* run) started it, and a caller about to write one of the pump's lines is
\* that execution: no two callers drive the same pump's lines at once.
C1_MutualExclusion ==
    \A p \in Pumps :
        /\ Cardinality({t \in Threads : InFlight(t, p)}) <= 1
        /\ \A t \in Threads : Drives(t, p) => InFlight(t, p) /\ lock[p]
\* a timed run is pulsing its pump after a rival was turned away from it
C1_Witness ==
    \E t \in Threads : \E p \in Pumps :
        RunInFlight(t, p) /\ pc[t] = "rfs_low" /\ call[t].overlapped

\* C2: of two overlapping run_for_seconds calls on one pump exactly one
\* succeeds and the other fails with AlreadyRunning.  The rival is turned
\* away in the step of its acquire attempt; what remains is that the call
\* holding the guard while the rival was turned away succeeds (a direction
\* the caller got wrong and a failing STEP write set aside).
C2_ExactlyOneSucceeds ==
    \A t \in Threads :
        (last[t].op = "run_for_seconds" /\ last[t].overlapped
            /\ last[t].status \notin {"InvalidDirection", "HardwareIOFailure"})
        => last[t].status = "ok"

MultiFailsBusy(t) ==
    pc[t] = "m_finally" /\ exc[t].kind = "AlreadyRunning" /\ pc'[t] = "idle"

\* C4: when a requested pump is busy with another caller's execution,
\* run_multi_seconds fails with AlreadyRunning naming that pump, none of the
\* guards it acquired remains held by it, and the other caller's guard is
\* still held.
C4_AllOrNothing ==
    [][\A t \in Threads :
          (MultiFailsBusy(t) /\ \E u \in Threads \ {t} : InFlight(u, exc[t].pump))
          => /\ last'[t].status = "AlreadyRunning"
             /\ last'[t].pump = exc[t].pump
             /\ \A p \in Pumps : ~MultiInFlight(t, p)
             /\ lock'[exc[t].pump]]_vars

\* C5 as stated: a multi-pump call that fails on a busy pump has written no
\* DIR line and no EN line, whatever the value.
C5_NoWrite ==
    [][\A t \in Threads :
          MultiFailsBusy(t) => call[t].w \cap {"DIR", "EN_on", "EN_off"} = {}]_vars
\* C5: a multi-pump call that fails on a busy pump has written no DIR line
\* and asserted no enable; the only writes it makes are the teardown's
\* writes of the disabled level to the enable lines of pumps it acquired.
C5_OnlyDisable ==
    [][\A t \in Threads : MultiFailsBusy(t) => call[t].w \subseteq {"EN_off"}]_vars
\* the teardown of such a call is over and has written an enable line
C5_Witness ==
    \E t \in Threads :
        /\ pc[t] = "m_finally" /\ exc[t].kind = "AlreadyRunning"
        /\ call[t].i > Len(acq[t]) /\ "EN_off" \in call[t].w

-----------------------------------------------------------------------------
\* Volume dispensing against a calibration store that changes

NextDispense ==
    \/ startup
    \/ set_pump_calibration(Pumps, NewRates)
    \/ \E t \in Requests :
        \/ call_dispense_ml(t, MlValues, {DEFAULT_DIR})
        \/ dispense_ml(t)
        \/ run_for_seconds(t)
InitDispense == Init /\ last_food_date = 0
SpecDispense == InitDispense /\ [][NextDispense]_vars

\* dispense_ml leaves its first statements for the run or with an exception
DispenseDecides(t) == pc[t] = "dml_begin" /\ pc'[t] # "dml_begin"

\* C6: every dispense_ml call takes the pump's rate r from the store as the
\* store is at the call.  With r > 0 it hands run_for_seconds a duration
\* with seconds * r = ml exactly; with r <= 0 or no stored rate it fails with
\* CalibrationMissing, the guard not acquired and no line written.
C6_Dispense ==
    [][\A t \in Threads : DispenseDecides(t) =>
          LET p == call[t].pump IN
          IF store[p] # <<>> /\ store[p][1] > 0
          THEN /\ calibration_rate'[p] = store[p][1]
               /\ pc'[t] = "rfs_acquire"
               /\ call'[t].seconds[1] * store[p][1] = call[t].ml * call'[t].seconds[2]
          ELSE /\ pc'[t] = "idle"
               /\ last'[t].status = "CalibrationMissing"
               /\ lock' = lock /\ line' = line /\ call[t].w = {}]_vars
\* food's rate was stored after startup and a dispense of 3 ml at 2 ml/s is
\* about to run for 3/2 s, while a dispense on the uncalibrated water pump
\* has failed
C6_Witness ==
    \E t, u \in Threads :
        /\ call[t].op = "dispense_ml" /\ call[t].pump = "food" /\ pc[t] = "rfs_acquire"
        /\ call[t].seconds = <<3, 2>>
        /\ last[u].status = "CalibrationMissing" /\ last[u].pump = "water"

-----------------------------------------------------------------------------
\* GrowLight (light.py).  Each operation is one step: the relay write and
\* is_on are set under GrowLight._lock.

\* Times of day the clock is observed at
ClockTimes == {HM(6, 59), HM(7, 0), HM(12, 0), HM(19, 0), HM(20, 0)}
\* day_start / day_end strings of a config request, split at ":" and read as
\* numbers: "07:00", "19:00", "25:00" and "7"
TimeInputs == {<<7, 0>>, <<19, 0>>, <<25, 0>>, <<7>>}
ModeInputs == {"manual", "daynight", "DayNight", "auto"}
\* str.lower() on those
LowerMode(m) == IF m = "DayNight" THEN "daynight" ELSE m

\* A relay wired active-high
level_for_state_active_high(on) == IF on THEN 1 ELSE 0
\* GrowLight._level_for_state: the relay is active-low
level_for_state(on) == IF on THEN 0 ELSE 1

\* LightManager.startup, with GrowLight.initialize: the relay line is claimed
\* at the level for off
light_startup ==
    /\ lightMgrHandle = NoHandle
    /\ \E h \in Handles : lightMgrHandle' = h /\ lightHandle' = h
    /\ relay' = level_for_state(FALSE)
    /\ is_on' = FALSE
    /\ UNCHANGED <<mode, day_start, day_end, lightLast>>

\* GrowLight.set_state, lines 53-54
set_state_raises == ~Truthy(lightHandle)

LightResult(op, status) == [NoLightLast EXCEPT !.op = op, !.status = status]

\* GrowLight.set_state as called by the API
set_state(on) ==
    /\ IF set_state_raises
       THEN /\ lightLast' = LightResult("set_state", "NotInitialized")
            /\ UNCHANGED <<relay, is_on>>
       ELSE /\ relay' = level_for_state(on)
            /\ is_on' = on
            /\ lightLast' = [LightResult("set_state", "ok") EXCEPT !.on = on]
    /\ UNCHANGED <<lightMgrHandle, lightHandle, mode, day_start, day_end>>

\* GrowLight.toggle
toggle ==
    /\ IF set_state_raises
       THEN /\ lightLast' = LightResult("toggle", "NotInitialized")
            /\ UNCHANGED <<relay, is_on>>
       ELSE /\ relay' = level_for_state(~is_on)
            /\ is_on' = ~is_on
            /\ lightLast' = [LightResult("toggle", "ok") EXCEPT !.on = ~is_on]
    /\ UNCHANGED <<lightMgrHandle, lightHandle, mode, day_start, day_end>>

\* GrowLight.set_after_delay, once its sleep is over: set_state(on)
set_after_delay(on) ==
    /\ IF set_state_raises
       THEN /\ lightLast' = LightResult("set_after_delay", "NotInitialized")
            /\ UNCHANGED <<relay, is_on>>
       ELSE /\ relay' = level_for_state(on)
            /\ is_on' = on
            /\ lightLast' = [LightResult("set_after_delay", "ok") EXCEPT !.on = on]
    /\ UNCHANGED <<lightMgrHandle, lightHandle, mode, day_start, day_end>>

\* GrowLight._parse_hhmm on the split string: too few parts, or an hour or
\* minute that datetime.time refuses
parse_hhmm_raises(v) == Len(v) < 2 \/ v[1] \notin 0..23 \/ v[2] \notin 0..59
parse_hhmm(v) == HM(v[1], v[2])

\* GrowLight.set_config: the mode is assigned before the times are parsed,
\* day_start before day_end
set_config(m, s, e) ==
    /\ IF LowerMode(m) \notin {"manual", "daynight"}
       THEN /\ lightLast' = LightResult("set_config", "ValueError")
            /\ UNCHANGED <<mode, day_start, day_end>>
       ELSE /\ mode' = LowerMode(m)
            /\ IF parse_hhmm_raises(s)
               THEN /\ lightLast' = LightResult("set_config", "ValueError")
                    /\ UNCHANGED <<day_start, day_end>>
               ELSE /\ day_start' = parse_hhmm(s)
                    /\ IF parse_hhmm_raises(e)
                       THEN /\ lightLast' = LightResult("set_config", "ValueError")
                            /\ UNCHANGED day_end
                       ELSE /\ day_end' = parse_hhmm(e)
                            /\ lightLast' = [LightResult("set_config", "ok")
                                               EXCEPT !.on = is_on]
    /\ UNCHANGED <<lightMgrHandle, lightHandle, is_on, relay>>

\* The window with the overnight case forgotten
is_within_window_plain(t) == day_start <= t /\ t < day_end
\* GrowLight._is_within_window
is_within_window(t) ==
    IF day_start < day_end
    THEN day_start <= t /\ t < day_end
    ELSE ~(day_end <= t /\ t < day_start)

\* GrowLight.apply_daynight_now
apply_daynight_now ==
    /\ IF mode # "daynight"
       THEN /\ lightLast' = [LightResult("apply_daynight_now", "ok") EXCEPT !.on = is_on]
            /\ UNCHANGED <<relay, is_on>>
       ELSE LET within == is_within_window(now) IN
            IF set_state_raises
            THEN /\ lightLast' = LightResult("apply_daynight_now", "NotInitialized")
                 /\ UNCHANGED <<relay, is_on>>
            ELSE /\ relay' = level_for_state(within)
                 /\ is_on' = within
                 /\ lightLast' = [LightResult("apply_daynight_now", "ok")
                                    EXCEPT !.applied = TRUE, !.within = <<within>>,
                                           !.on = within]
    /\ UNCHANGED <<lightMgrHandle, lightHandle, mode, day_start, day_end>>

\* the wall clock moves on: to a later time of the day, or into the next day
advance_clock ==
    /\ \/ /\ \E t \in ClockTimes : t > now /\ now' = t
          /\ UNCHANGED today
       \/ /\ today < MaxDay
          /\ today' = today + 1
          /\ now' \in ClockTimes
    /\ UNCHANGED <<pumpVars, threadVars, lightVars, cycle, schedVars, lifeVars>>

\* The requests of api/routers/light.py and the lifespan's LightManager.startup
lifespan_light_startup == light_startup /\ UNCHANGED nonLightVars
api_set_light_state(on) == set_state(on) /\ UNCHANGED nonLightVars
api_toggle_light == toggle /\ UNCHANGED nonLightVars
api_set_light_config(m, s, e) == set_config(m, s, e) /\ UNCHANGED nonLightVars
api_apply_light_daynight == apply_daynight_now /\ UNCHANGED nonLightVars
\* the background task that api_light_on_for hands to the server: it may run
\* at any later time
light_off_task == set_after_delay(FALSE) /\ UNCHANGED nonLightVars

NextLight ==
    \/ lifespan_light_startup
    \/ \E on \in BOOLEAN : api_set_light_state(on)
    \/ api_toggle_light
    \/ \E m \in ModeInputs, s \in TimeInputs, e \in TimeInputs :
            api_set_light_config(m, s, e)
    \/ api_apply_light_daynight
    \/ light_off_task
    \/ advance_clock
SpecLight == InitPump /\ [][NextLight]_vars

\* a step of apply_daynight_now that returned a result in daynight mode
Applied ==
    /\ api_apply_light_daynight
    /\ lightLast'.op = "apply_daynight_now" /\ lightLast'.applied

\* C7: the window membership apply_daynight_now reports and switches the
\* light by: with day_start < day_end, t is within iff day_start <= t <
\* day_end; with day_start > day_end, iff not (day_end <= t < day_start).
\* 19:00-07:00 has 20:00 and 06:59 within and 12:00 and 07:00 outside;
\* 07:00-19:00 has 12:00 within.
WindowExamples ==
    {<<HM(19, 0), HM(7, 0), HM(20, 0), TRUE>>, <<HM(19, 0), HM(7, 0), HM(6, 59), TRUE>>,
     <<HM(19, 0), HM(7, 0), HM(12, 0), FALSE>>, <<HM(19, 0), HM(7, 0), HM(7, 0), FALSE>>,
     <<HM(7, 0), HM(19, 0), HM(12, 0), TRUE>>}
C7_Window ==
    [][Applied =>
          /\ day_start < day_end
                => lightLast'.within = <<day_start <= now /\ now < day_end>>
          /\ day_start > day_end
                => lightLast'.within = <<~(day_end <= now /\ now < day_start)>>
          /\ \A x \in WindowExamples :
                (day_start = x[1] /\ day_end = x[2] /\ now = x[3])
                => (lightLast'.within = <<x[4]>> /\ is_on' = x[4])]_vars
\* at 06:59 with the window 19:00-07:00 the light has been switched on
C7_Witness ==
    /\ lightLast.op = "apply_daynight_now" /\ lightLast.within = <<TRUE>>
    /\ day_start = HM(19, 0) /\ day_end = HM(7, 0) /\ now = HM(6, 59)
    /\ is_on /\ relay = 0

\* C8: with day_start equal to day_end no time of day is within the window,
\* so apply_daynight_now in daynight mode commands the light off.
C8_NeverLit ==
    [][(Applied /\ day_start = day_end)
          => (lightLast'.within = <<FALSE>> /\ ~is_on' /\ relay' = 1)]_vars

\* the light operations that write the relay
RelayWriters == {"set_state", "toggle", "set_after_delay", "apply_daynight_now"}

\* C18: once the light is bound to a handle, the relay line is low exactly
\* when the logical state is on; and the logical state changes only in a
\* light operation that returns having written the relay to the level of the
\* new state.
C18_RelayConsistent ==
    [][/\ lightHandle' # NoHandle => relay' = (IF is_on' THEN 0 ELSE 1)
       /\ is_on' # is_on
            => (/\ relay' # relay
                /\ lightLast'.op \in RelayWriters
                /\ lightLast'.status = "ok"
                /\ lightLast'.on = is_on')]_vars
\* a toggle has switched the light on and the relay is low
C18_Witness ==
    /\ lightLast.op = "toggle" /\ lightLast.status = "ok"
    /\ is_on /\ relay = 0 /\ lightHandle = 1

\* t is within the window from s to e, which may run over midnight
Within(s, e, t) == IF s < e THEN s <= t /\ t < e ELSE ~(e <= t /\ t < s)

\* a set_config request that failed
ConfigRefused ==
    /\ \E m \in ModeInputs, s \in TimeInputs, e \in TimeInputs :
            api_set_light_config(m, s, e)
    /\ lightLast'.op = "set_config" /\ lightLast'.status # "ok"

\* C19: a set_config call that fails, for its mode or for one of its times,
\* leaves the stored mode, day_start and day_end as they were.
C19_ValidateBeforeStore ==
    [][ConfigRefused
          => (mode' = mode /\ day_start' = day_start /\ day_end' = day_end)]_vars

\* a request for apply_daynight_now, served with the light's manager started
ApplyRequested == api_apply_light_daynight /\ lightMgrHandle # NoHandle

\* C20: apply_daynight_now on a started light: in manual mode it reports
\* applied = false and leaves the relay and the logical state alone; in
\* daynight mode it reports applied = true and the logical state becomes the
\* window membership of the current time.
C20_NoOpUnlessDaynight ==
    [][ApplyRequested =>
          /\ lightLast'.op = "apply_daynight_now" /\ lightLast'.status = "ok"
          /\ IF mode = "daynight"
             THEN lightLast'.applied /\ is_on' = Within(day_start, day_end, now)
             ELSE ~lightLast'.applied /\ is_on' = is_on /\ relay' = relay]_vars

-----------------------------------------------------------------------------
\* control.control_cycle_once.  Voltages are in tenths of a volt.

DEFAULT_THRESH == 20
DEFAULT_VOTE_K == 2
DEFAULT_IRR_SEC == 5
\* The four channel voltages of a reading: 2.5, 2.6, 1.0, 1.1 V; every
\* channel at the threshold; three channels over it
Readings == {<<25, 26, 10, 11>>, <<20, 20, 20, 20>>, <<25, 26, 27, 11>>}
VoteKs == {DEFAULT_VOTE_K, 3}
\* irrigate_seconds of a request: the request model does not constrain it
IrrigateSeconds == {Frac(DEFAULT_IRR_SEC, 1), Frac(0, 1)}

\* A count that takes a channel at the threshold as over it
count_over_inclusive(volts, thr) ==
    Cardinality({k \in DOMAIN volts : volts[k] >= thr})
\* line 151: sum(1 for v in before_volts if v > target_threshold)
RECURSIVE count_over(_, _)
count_over(volts, thr) ==
    IF volts = <<>> THEN 0
    ELSE (IF Head(volts) > thr THEN 1 ELSE 0) + count_over(Tail(volts), thr)

\* Log calls that let the sinks' exceptions out
cycle_log_unguarded(failed) ==
    IF failed # {} THEN Exc("LogFailure", None) ELSE NoExc
\* lines 190-215: _log_control_cycle_to_csv and master_log.log_event, each in
\* its own try/except that prints: what the two statements raise when the
\* sinks in `failed` raise
cycle_log_raises(failed) == NoExc
\* the sinks that may fail
LogSinks == {"csv", "master"}

\* A request thread (api.api_control_cycle) enters control_cycle_once for the
\* request's default pump
call_control_cycle(t) ==
    /\ mgrHandle # NoHandle
    /\ \E k \in VoteKs, irr \in IrrigateSeconds :
        /\ Enter(t, [NoArgs EXCEPT !.op = "control_cycle", !.pump = "water",
                                   !.seconds = irr, !.hz = DEFAULT_HZ,
                                   !.dir = DEFAULT_DIR], "cc_before")
        /\ cycle' = [cycle EXCEPT ![t] = [NoCycle EXCEPT !.threshold = DEFAULT_THRESH,
                                                         !.vote_k = k,
                                                         !.irrigate_seconds = irr]]
    /\ UNCHANGED pumpVars
    /\ UNCHANGED <<lightVars, clockVars, schedVars, lifeVars>>

\* lines 139-163: the "before" snapshot (which may raise), the vote, and
\* either the call of run_for_seconds or, with no run, lines 174-217
cc_before(t) ==
    /\ pc[t] = "cc_before"
    /\ \/ /\ Finish(t, Exc("SensorFailure", None))
          /\ UNCHANGED cycle
       \/ \E v \in Readings :
            LET over == count_over(v, cycle[t].threshold)
                triggered == over >= cycle[t].vote_k
                runs == triggered /\ Positive(cycle[t].irrigate_seconds) IN
            /\ IF runs
               THEN /\ cycle' = [cycle EXCEPT ![t].before = v, ![t].over = over,
                                              ![t].triggered = triggered,
                                              ![t].runs = @ + 1]
                    /\ Pc(t, "rfs_acquire")
                    /\ UNCHANGED <<call, acq, exc, last>>
               ELSE \E f \in SUBSET LogSinks :
                    /\ cycle' = [cycle EXCEPT ![t].before = v, ![t].over = over,
                                              ![t].triggered = triggered,
                                              ![t].logfail = f]
                    /\ Finish(t, cycle_log_raises(f))
    /\ UNCHANGED pumpVars
    /\ UNCHANGED <<lightVars, clockVars, schedVars, lifeVars>>

\* lines 164-217, after run_for_seconds has returned: the "after" snapshot
\* (which may raise) and the result
cc_after(t) ==
    /\ pc[t] = "cc_after"
    /\ \/ /\ Finish(t, Exc("SensorFailure", None))
          /\ cycle' = [cycle EXCEPT ![t].irrigated = TRUE]
       \/ \E v \in Readings, f \in SUBSET LogSinks :
            /\ cycle' = [cycle EXCEPT ![t].irrigated = TRUE, ![t].after = <<v>>,
                                      ![t].logfail = f]
            /\ Finish(t, cycle_log_raises(f))
    /\ UNCHANGED pumpVars
    /\ UNCHANGED <<lightVars, clockVars, schedVars, lifeVars>>

control_cycle_once(t) == cc_before(t) \/ cc_after(t)

NextControl ==
    \/ startup
    \/ \E t \in Requests :
        \/ call_control_cycle(t) \/ control_cycle_once(t)
        \/ run_for_seconds(t)
SpecControl == InitPump /\ [][NextControl]_vars

\* The cycle of thread t has voted
Voted(t) == cycle[t].before # <<>>
\* The cycle of thread t has returned its result
Returned(t) == last[t].op = "control_cycle" /\ last[t].status = "ok"

-----------------------------------------------------------------------------
\* grow_scheduler: one tick of the scheduler thread

S == "sched"
FOOD_PUMP_NAME == "food"
FOOD_ML_PER_DAY == 100
\* "12:00", "06:00" and "20:00", split at ":" and read as numbers
FOOD_DOSE_TIME == <<12, 0>>
LIGHT_ON_START == <<6, 0>>
LIGHT_ON_END == <<20, 0>>
\* "2025-12-18 07:00": the second of the days the clock runs through
DAYNIGHT_START_AT == <<2, HM(7, 0)>>
\* What plant_status.json holds: nothing readable, or a status as written
PlantFiles == {"missing", "pre-germination", " Germinated"}

\* grow_scheduler._parse_hhmm
sched_parse_hhmm(v) == HM(v[1], v[2])
\* str.strip().lower() on the statuses above
StripLower(x) == IF x = " Germinated" THEN "germinated" ELSE x
\* A reading that takes a missing file for a germinated plant
get_plant_status_lenient ==
    IF plantStatus = "missing" THEN "germinated" ELSE StripLower(plantStatus)
\* _get_plant_status: the default when the file is missing or unreadable
get_plant_status ==
    IF plantStatus = "missing" THEN "pre-germination" ELSE StripLower(plantStatus)

\* A dose due at any time past the dose time, whatever the recorded date
food_due_any_date(day, minute, last_date) ==
    minute >= sched_parse_hhmm(FOOD_DOSE_TIME)
\* _food_due
food_due(day, minute, last_date) ==
    minute >= sched_parse_hhmm(FOOD_DOSE_TIME) /\ last_date # day

\* The date the tick before this one left in its locals
get_state_cached == tick.last
\* _get_state: scheduler_state.json is read afresh
get_state == last_food_date

\* A loop test that never sees the signal
stop_is_set_never == FALSE
\* run_forever, line 181: _stop_flag.is_set()
stop_is_set == stop_flag

\* run_forever finds the stop signal clear (line 181) and tick reads the
\* clock (line 144)
tick_begin ==
    /\ pc[S] = "idle"
    /\ ~stop_is_set
    /\ tick' = [NoTick EXCEPT !.day = today, !.minute = now, !.failed = tick.failed,
                             !.ran = tick.ran, !.ignored = tick.ignored]
    /\ Pc(S, "t_config")
    /\ UNCHANGED <<call, acq, exc, last, plantStatus, last_food_date, lightVars>>
    /\ UNCHANGED <<pumpVars, clockVars, cycle, lifeVars>>

\* line 148: now >= daynight_start
daynight_started ==
    \/ tick.day > DAYNIGHT_START_AT[1]
    \/ tick.day = DAYNIGHT_START_AT[1] /\ tick.minute >= DAYNIGHT_START_AT[2]

\* lines 148-150 with _ensure_daynight_enabled: the config is forced into
\* daynight mode; its log entry may raise, and line 152 catches that
t_config ==
    /\ pc[S] = "t_config"
    /\ IF ~daynight_started
       THEN Pc(S, "t_food") /\ UNCHANGED lightVars
       ELSE IF mode = "daynight"
       THEN Pc(S, "t_apply") /\ UNCHANGED lightVars
       ELSE /\ set_config("daynight", LIGHT_ON_START, LIGHT_ON_END)
            /\ Pc(S, "t_apply") \/ Pc(S, "t_food")
    /\ UNCHANGED <<call, acq, exc, last, schedVars>>
    /\ UNCHANGED <<pumpVars, clockVars, cycle, lifeVars>>

\* line 151 with light.apply_daynight_now: the light manager is started if
\* it was not, then the window is applied; line 152 catches what it raises
t_apply ==
    /\ pc[S] = "t_apply"
    /\ IF lightMgrHandle = NoHandle
       THEN light_startup /\ UNCHANGED pc
       ELSE apply_daynight_now /\ Pc(S, "t_food")
    /\ UNCHANGED <<call, acq, exc, last, schedVars>>
    /\ UNCHANGED <<pumpVars, clockVars, cycle, lifeVars>>

\* lines 156-165 and 127: the germination gate, the date guard, and the call
\* of dispense_ml on the food pump
t_food ==
    /\ pc[S] = "t_food"
    /\ LET status == get_plant_status
           due == status = "germinated"
                  /\ food_due(tick.day, tick.minute, get_state) IN
        /\ tick' = [tick EXCEPT !.status = status, !.last = get_state,
                                !.doses = IF due THEN @ + 1 ELSE @]
        /\ IF due
           THEN /\ call' = [call EXCEPT ![S] =
                              [NoArgs EXCEPT !.op = "dispense_ml", !.pump = FOOD_PUMP_NAME,
                                             !.ml = FOOD_ML_PER_DAY, !.hz = DEFAULT_HZ,
                                             !.dir = DEFAULT_DIR, !.ret = "t_dosed"]]
                /\ last' = [last EXCEPT ![S] = NoLast]
                /\ Pc(S, "dml_begin")
                /\ UNCHANGED <<acq, exc>>
           ELSE /\ Pc(S, "idle")
                /\ UNCHANGED <<call, acq, exc, last>>
    /\ UNCHANGED <<plantStatus, last_food_date, lightVars>>
    /\ UNCHANGED <<pumpVars, clockVars, cycle, lifeVars>>

\* A handler that records today's date all the same
date_after_failure_today == tick.day
\* lines 169-177: the handler logs and prints, and writes no state
date_after_failure == last_food_date

\* lines 128-134 and 166-177: after a dose that returned, its log entry and
\* the state write, either of which may raise; the handler's own log entry
\* may raise as well, and then the exception leaves tick and run_forever
t_dosed ==
    /\ pc[S] = "t_dosed"
    /\ LET failed == IF last[S].status = "ok" THEN tick.failed ELSE tick.day
           \* the day of the last dose the pump completed
           ran == IF last[S].status = "ok" THEN tick.day ELSE tick.ran IN
       \/ /\ last[S].status = "ok"
          /\ last_food_date' = tick.day
          /\ tick' = [tick EXCEPT !.outcome = "dosed", !.ran = ran]
          /\ Pc(S, "idle")
       \/ /\ tick' = [tick EXCEPT !.outcome = "failed", !.failed = failed, !.ran = ran]
          /\ Pc(S, "idle")
          /\ last_food_date' = date_after_failure
       \/ /\ tick' = [tick EXCEPT !.outcome = "crashed", !.failed = failed, !.ran = ran]
          /\ Pc(S, "dead")
          /\ last_food_date' = date_after_failure
    /\ UNCHANGED <<call, acq, exc, last, plantStatus, lightVars>>
    /\ UNCHANGED <<pumpVars, clockVars, cycle, lifeVars>>

\* plant_status.json is written by the plant monitor
set_plant_status ==
    /\ \E v \in PlantFiles : v # plantStatus /\ plantStatus' = v
    /\ UNCHANGED <<last_food_date, tick>>
    /\ UNCHANGED <<pumpVars, threadVars, lightVars, clockVars, cycle, lifeVars>>

\* grow_scheduler.tick
tick_step == tick_begin \/ t_config \/ t_apply \/ t_food \/ t_dosed

NextSched ==
    \/ startup
    \/ set_pump_calibration({FOOD_PUMP_NAME}, {2})
    \/ call_run_for_seconds("req1", {FOOD_PUMP_NAME}, {DEFAULT_DIR})
    \/ \E t \in {S, "req1"} : dispense_ml(t) \/ run_for_seconds(t)
    \/ tick_step
    \/ advance_clock
    \/ set_plant_status
InitSched == Init /\ store = DEFAULT_CALIBRATION
SpecSched == InitSched /\ [][NextSched]_vars

\* A tick ends: it returns to run_forever, or its exception leaves the loop
TickEnds == pc[S] \in {"t_food", "t_dosed"} /\ pc'[S] \in {"idle", "dead"}
\* the tick's clock reading is at or past the dose time of day
PastDoseTime(k) == k.minute >= HM(12, 0)

\* C10 as stated: with the plant germinated, a tick past the dose time does
\* not dispense when last_food_date is today and otherwise dispenses once
\* and sets last_food_date to today; a tick before the dose time does not
\* dispense.
C10_DateGuard ==
    [][(TickEnds /\ tick'.status = "germinated") =>
          /\ (PastDoseTime(tick') /\ tick'.last = tick'.day) => tick'.doses = 0
          /\ (PastDoseTime(tick') /\ tick'.last # tick'.day)
                => (tick'.doses = 1 /\ last_food_date' = tick'.day)
          /\ ~PastDoseTime(tick') => tick'.doses = 0]_vars
\* C10: with the plant germinated, a tick past the dose time issues no
\* dispense_ml call when last_food_date is today and exactly one otherwise;
\* last_food_date becomes today when that call has returned and the dose is
\* logged and recorded, and keeps its value when the call or the log or the
\* state write raises; a tick before the dose time issues no call; a tick
\* that issues none leaves last_food_date alone.
C10_GuardOnSuccess ==
    [][(TickEnds /\ tick'.status = "germinated") =>
          /\ (PastDoseTime(tick') /\ tick'.last = tick'.day) => tick'.doses = 0
          /\ (PastDoseTime(tick') /\ tick'.last # tick'.day) =>
                /\ tick'.doses = 1
                /\ tick'.outcome = "dosed"
                      => (last[S].status = "ok" /\ last_food_date' = tick'.day)
                /\ (tick'.outcome # "dosed" \/ last[S].status # "ok")
                      => last_food_date' = tick'.last
          /\ ~PastDoseTime(tick') => tick'.doses = 0
          /\ tick'.doses = 0 => last_food_date' = last_food_date]_vars
\* a tick on day 2 found day 1 recorded, dosed once and recorded day 2
C10_Witness ==
    /\ pc[S] = "idle" /\ tick.outcome = "dosed" /\ tick.doses = 1
    /\ tick.last = 1 /\ tick.day = 2 /\ last_food_date = 2
    /\ last[S].op = "dispense_ml" /\ last[S].status = "ok"

\* the tick's dispense_ml call has raised and the tick goes on from there
DoseFailed == pc[S] = "t_dosed" /\ pc'[S] # "t_dosed" /\ last[S].status # "ok"
\* the tick passes the germination gate and the date guard
TickDecides == pc[S] = "t_food" /\ pc'[S] # "t_food"

\* C14: a tick whose dispense_ml call raised leaves last_food_date as it was;
\* and a tick past the dose time on a date on which an earlier tick's call
\* raised, with the plant germinated and no dose recorded for that date,
\* calls dispense_ml again.
C14_RetryAfterFailure ==
    [][/\ DoseFailed => last_food_date' = last_food_date
       /\ (/\ TickDecides
           /\ tick.failed = tick.day
           /\ PastDoseTime(tick)
           /\ get_plant_status = "germinated"
           /\ last_food_date # tick.day)
            => (tick'.doses = 1 /\ pc'[S] = "dml_begin"
                /\ call'[S].op = "dispense_ml" /\ call'[S].pump = FOOD_PUMP_NAME)]_vars
\* on a day on which an earlier tick's dose had failed, a tick has dosed and
\* recorded the day
C14_Witness ==
    /\ pc[S] = "idle" /\ tick.failed = tick.day /\ tick.doses = 1
    /\ tick.outcome = "dosed" /\ last_food_date = tick.day


-----------------------------------------------------------------------------
\* The managers' shutdown, as the lifespan of api/main.py calls it once the
\* server has stopped serving requests

\* PumpManager.shutdown: the pumps whose _enable_driver(False) the loop
\* reaches, that is every pump up to and including the first that raises
ShutdownReached(p) ==
    \E i \in 1..Len(PumpOrder) :
        /\ PumpOrder[i] = p
        /\ \A j \in 1..(i-1) : ~Raised(enable_driver_raises(PumpOrder[j]))
\* the exception that loop raises, NoExc when it raises none
shutdown_raises ==
    IF \E p \in Pumps : ShutdownReached(p) /\ Raised(enable_driver_raises(p))
    THEN Exc("KeyError", CHOOSE p \in Pumps :
                            ShutdownReached(p) /\ Raised(enable_driver_raises(p)))
    ELSE NoExc
\* and the lines as it leaves them; closing the chip leaves every line at the
\* level last written
shutdown_lines ==
    [p \in Pumps |-> IF ShutdownReached(p) THEN enable_driver(p, FALSE, line)[p]
                                           ELSE line[p]]

\* PumpManager.shutdown: nothing without a handle; otherwise every pump's
\* driver is disabled, the chip closed and the manager's handle dropped (the
\* pumps keep theirs)
shutdown ==
    /\ \A t \in Requests : pc[t] = "idle"
    /\ IF mgrHandle = NoHandle
       THEN /\ lifeLast' = [lifeLast EXCEPT !.pumps = "ok"]
            /\ UNCHANGED <<mgrHandle, line, opens>>
       ELSE /\ line' = shutdown_lines
            /\ IF Raised(shutdown_raises)
               THEN /\ lifeLast' = [lifeLast EXCEPT !.pumps = shutdown_raises.kind]
                    /\ UNCHANGED <<mgrHandle, opens>>
               ELSE /\ lifeLast' = [lifeLast EXCEPT !.pumps = "ok"]
                    /\ mgrHandle' = NoHandle
                    /\ opens' = 0
    /\ UNCHANGED <<handle, hasEN, lock, is_running, calibration_rate, store, threadVars>>
    /\ UNCHANGED <<lightVars, clockVars, cycle, schedVars, sensorVars, stop_flag>>

\* LightManager.shutdown: nothing without a handle; otherwise set_state(False)
\* (which raises on a falsy GrowLight._handle), then the chip is closed and
\* the manager's handle dropped
light_shutdown ==
    /\ IF lightMgrHandle = NoHandle
       THEN /\ lifeLast' = [lifeLast EXCEPT !.light = "ok"]
            /\ UNCHANGED <<lightMgrHandle, relay, is_on>>
       ELSE IF set_state_raises
       THEN /\ lifeLast' = [lifeLast EXCEPT !.light = "NotInitialized"]
            /\ UNCHANGED <<lightMgrHandle, relay, is_on>>
       ELSE /\ relay' = level_for_state(FALSE)
            /\ is_on' = FALSE
            /\ lightMgrHandle' = NoHandle
            /\ lifeLast' = [lifeLast EXCEPT !.light = "ok"]
    /\ UNCHANGED <<lightHandle, mode, day_start, day_end, lightLast>>
    /\ UNCHANGED <<pumpVars, threadVars, clockVars, cycle, schedVars, sensorVars, stop_flag,
                   opens>>

\* SensorManager.startup(use_digital=True): the chip is opened and, under
\* the array's lock, the analog channels are created and the array bound to
\* the handle
sensor_startup ==
    /\ sensorMgrHandle = NoHandle
    /\ arrayLock = None
    /\ \E h \in Handles : sensorMgrHandle' = h /\ arrayHandle' = h
    /\ chans' = TRUE
    \* `if not self._i2c`: the ADC object is built once, with the attributes
    \* of that moment
    /\ acqParams' = IF acqParams.ads = <<>>
                    THEN [acqParams EXCEPT !.ads = <<acqParams.attr>>] ELSE acqParams
    /\ UNCHANGED <<arrayLock, snap>>
    /\ UNCHANGED <<pumpVars, threadVars, lightVars, clockVars, cycle, schedVars, lifeLast,
                   stop_flag, opens>>

\* SensorManager.shutdown: nothing without a handle; otherwise the chip is
\* closed and both handles dropped
sensor_shutdown ==
    /\ IF sensorMgrHandle = NoHandle
       THEN UNCHANGED sensorVars
       ELSE /\ sensorMgrHandle' = NoHandle /\ arrayHandle' = NoHandle
            /\ UNCHANGED <<chans, arrayLock, snap, acqParams>>
    /\ lifeLast' = [lifeLast EXCEPT !.sensors = "ok"]
    /\ UNCHANGED <<pumpVars, threadVars, lightVars, clockVars, cycle, schedVars, stop_flag,
                   opens>>

\* A light request served while the light manager is up
serve_set_light_state(on) == lightMgrHandle # NoHandle /\ api_set_light_state(on)

NextLife ==
    \/ startup
    \/ shutdown
    \/ lifespan_light_startup
    \/ \E on \in BOOLEAN : serve_set_light_state(on)
    \/ light_shutdown
    \/ sensor_startup
    \/ sensor_shutdown
SpecLife == InitPump /\ [][NextLife]_vars

\* the shutdown of manager m, and that manager's handle
ShutdownOf(m) ==
    CASE m = "pumps" -> shutdown
      [] m = "light" -> light_shutdown
      [] m = "sensors" -> sensor_shutdown
\* no pump's enable line is asserted
EnablesDisabled(ln) == \A p \in Pumps : ln[p].EN # 0

\* C11: every call of a manager's shutdown, be it after a startup, right
\* after another shutdown or without any startup, does not raise and leaves
\* no pump enable line asserted.
C11_IdempotentShutdown ==
    [][\A m \in Managers :
          ShutdownOf(m) => (lifeLast'[m] = "ok" /\ EnablesDisabled(line'))]_vars


\* PumpManager.startup raised part-way: the chip is open and a pump is unbound
PartialStartup == mgrHandle # NoHandle /\ \E p \in Pumps : handle[p] = NoHandle

\* C12: a shutdown after a startup that failed part-way does not raise, drops
\* the manager's handle and leaves every claimed enable line disabled.
C12_PartialStartup ==
    [][(shutdown /\ PartialStartup)
          => /\ lifeLast'.pumps = "ok"
             /\ mgrHandle' = NoHandle
             /\ \A p \in Pumps : line'[p].EN \in {Z, 1}]_vars


-----------------------------------------------------------------------------
\* grow_scheduler.start / stop / run_forever, and the restart of the process

\* Thread.is_alive() of the scheduler's thread
thread_alive == pc[S] \notin {"exited", "dead"}

\* run_forever finds the stop signal set (line 181) and returns
run_forever_exit ==
    /\ pc[S] = "idle"
    /\ stop_is_set
    /\ Pc(S, "exited")
    /\ UNCHANGED <<call, acq, exc, last, pumpVars, lightVars, clockVars, cycle, schedVars,
                   sensorVars, lifeLast, stop_flag, opens>>

\* grow_scheduler.stop sets the signal and does not wait for the thread
stop ==
    /\ ~stop_flag
    /\ stop_flag' = TRUE
    /\ UNCHANGED <<pumpVars, threadVars, lightVars, clockVars, cycle, schedVars, sensorVars,
                   lifeLast, opens>>

\* grow_scheduler.start: returns at once while the thread is alive; otherwise
\* clears the signal and starts a new thread on run_forever
start ==
    /\ IF thread_alive
       THEN /\ UNCHANGED <<pc, stop_flag>>
            \* a call that returns at line 189 although stop() came before it
            /\ tick' = [tick EXCEPT !.ignored = @ \/ stop_flag]
       ELSE /\ Pc(S, "idle") /\ stop_flag' = FALSE
            /\ tick' = [tick EXCEPT !.ignored = FALSE]
    /\ UNCHANGED <<call, acq, exc, last, pumpVars, lightVars, clockVars, cycle, plantStatus,
                   last_food_date, sensorVars, lifeLast, opens>>

\* The process ends and a new one is started: the objects are constructed
\* anew and the lifespan starts the scheduler; the files (calibration.json,
\* plant_status.json, scheduler_state.json) and the clock are what they were
process_restart ==
    /\ mgrHandle' = NoHandle
    /\ handle' = [p \in Pumps |-> NoHandle]
    /\ lock' = [p \in Pumps |-> FALSE]
    /\ is_running' = [p \in Pumps |-> FALSE]
    /\ line' = [p \in Pumps |-> [STEP |-> Z, DIR |-> Z, EN |-> Z]]
    /\ calibration_rate' = [p \in Pumps |-> load_calibration(p)]
    /\ pc' = [t \in Threads |-> "idle"]
    /\ call' = [t \in Threads |-> NoArgs]
    /\ acq' = [t \in Threads |-> <<>>]
    /\ exc' = [t \in Threads |-> NoExc]
    /\ last' = [t \in Threads |-> NoLast]
    /\ lightMgrHandle' = NoHandle /\ lightHandle' = NoHandle
    /\ is_on' = FALSE /\ relay' = Z
    /\ mode' = "manual" /\ day_start' = HM(19, 0) /\ day_end' = HM(7, 0)
    /\ lightLast' = NoLightLast
    /\ cycle' = [t \in Threads |-> NoCycle]
    /\ tick' = [NoTick EXCEPT !.ran = tick.ran]
    /\ sensorMgrHandle' = NoHandle /\ arrayHandle' = NoHandle
    /\ chans' = FALSE /\ arrayLock' = None
    /\ snap' = [t \in Requests |-> NoSnap]
    /\ acqParams' = NoParams
    /\ lifeLast' = NoLifeLast
    /\ stop_flag' = FALSE
    /\ opens' = 0
    /\ UNCHANGED <<hasEN, store, clockVars, plantStatus, last_food_date>>

NextRestart ==
    \/ startup
    \/ set_pump_calibration({FOOD_PUMP_NAME}, {2})
    \/ dispense_ml(S) \/ run_for_seconds(S)
    \/ tick_step
    \/ advance_clock
    \/ set_plant_status
    \/ run_forever_exit
    \/ stop
    \/ start
    \/ process_restart
SpecRestart == InitSched /\ [][NextRestart]_vars

\* C13: the scheduler's thread is not ended by an exception of a tick, and
\* it has left its loop only with the stop signal set.
C13_TickNeverTerminates == pc[S] # "dead" /\ (pc[S] = "exited" => stop_flag)


\* plant_status.json holds no germinated status, or is missing or unreadable
NotGerminated == plantStatus \in {"missing", "pre-germination"}
\* a step of the scheduler's thread
SchedulerStep == tick_step \/ dispense_ml(S) \/ run_for_seconds(S)

\* C16: a tick that reads a plant status other than germinated, a missing or
\* unreadable one included, calls dispense_ml not at all and returns with
\* last_food_date as it was; no step of a tick before its dose changes
\* last_food_date; and no step of the scheduler writes the plant status.
C16_GerminationGate ==
    [][/\ (TickDecides /\ NotGerminated)
            => (tick'.doses = 0 /\ pc'[S] = "idle" /\ call'[S] = NoArgs
                /\ tick'.status # "germinated"
                /\ last_food_date' = last_food_date)
       /\ (tick_step /\ pc[S] # "t_dosed") => last_food_date' = last_food_date
       /\ SchedulerStep => plantStatus' = plantStatus]_vars
\* a tick past the dose time with no dose recorded for the day found the
\* status file missing and returned without dosing
C16_Witness ==
    /\ pc[S] = "idle" /\ plantStatus = "missing" /\ tick.status = "pre-germination"
    /\ PastDoseTime(tick) /\ tick.last # tick.day /\ tick.doses = 0
    /\ last_food_date = tick.last

\* the lighting step of a tick ends: the tick goes on to its dosing step
LightingStepEnds == pc[S] \in {"t_config", "t_apply"} /\ pc'[S] = "t_food"

\* C17: when the lighting step of a tick at or after the activation instant
\* ends, the light is in daynight mode and its logical state is the window
\* membership of the current time; the lighting step of a tick before that
\* instant changes neither the mode nor the state.
C17_LightingStep ==
    [][LightingStepEnds =>
          IF daynight_started
          THEN mode' = "daynight" /\ is_on' = Within(day_start', day_end', now)
          ELSE mode' = mode /\ is_on' = is_on]_vars

\* a step that stops or starts the scheduler or restarts the process
Restarts == run_forever_exit \/ stop \/ start \/ process_restart

\* C15: stopping and starting the scheduler or the process leaves the
\* recorded dosing date as it is, and a tick on the recorded date calls
\* dispense_ml not at all, whatever was stopped and started before it.
C15_NoRedoseAfterRestart ==
    [][/\ Restarts => last_food_date' = last_food_date
       /\ (TickDecides /\ last_food_date = tick.day)
            => (tick'.doses = 0 /\ pc'[S] = "idle" /\ call'[S] = NoArgs
                /\ last_food_date' = last_food_date)]_vars
\* day 2's dose was recorded, the process was restarted, and a tick of the
\* new process past the dose time on day 2, plant germinated, has not dosed
C15_Witness ==
    /\ last_food_date = 2 /\ tick.day = 2 /\ PastDoseTime(tick)
    /\ tick.status = "germinated" /\ tick.doses = 0 /\ pc[S] = "idle"
    /\ last[S] = NoLast


\* ------------------------------------------------- SensorArray.snapshot
MaxSamples == 2
\* the samples argument: SensorsRequest demands ge=1; control_cycle_once and
\* the legacy wrapper pass it on unchecked, so 0 is a value too
Samples == 0..MaxSamples

nonSnapVars == <<pumpVars, threadVars, lightVars, clockVars, cycle, schedVars,
                 sensorMgrHandle, arrayHandle, chans, acqParams, lifeLast, stop_flag,
                 opens>>

\* A lock that never makes a caller wait
array_lock_blind == TRUE
\* `with self._lock:` (line 126) goes on only when no thread holds the lock
array_lock_free == arrayLock = None

\* A loop that sleeps after every reading
sleeps_always(i, samples) == TRUE
\* lines 159-160: `if i < samples: time.sleep(interval)`
sleeps_between(i, samples) == i < samples

\* lines 121-124: the call starts; with no channels it raises at once, before
\* the lock is touched
snapshot_enter(t) ==
    /\ snap[t].pc = "idle"
    /\ \E n \in Samples :
        IF ~chans
        THEN snap' = [snap EXCEPT ![t] = [NoSnap EXCEPT !.samples = n,
                                                        !.status = "NotInitialized"]]
        ELSE snap' = [snap EXCEPT ![t] = [NoSnap EXCEPT !.samples = n, !.pc = "lock"]]
    /\ UNCHANGED arrayLock
    /\ UNCHANGED nonSnapVars

\* line 126: the lock is taken (the thread waits while another holds it)
snapshot_lock(t) ==
    /\ snap[t].pc = "lock"
    /\ array_lock_free
    /\ arrayLock' = t
    /\ snap' = [snap EXCEPT ![t].pc = "loop"]
    /\ UNCHANGED nonSnapVars

\* lines 127-160, one iteration up to its sleep: the channels are read (an
\* I2C error leaves the `with` block, which releases the lock), the reading
\* is appended with index i and handed to master_log.log_event, whose own
\* failure is caught (lines 156-157)
snapshot_read(t) ==
    /\ snap[t].pc = "loop"
    /\ snap[t].i < snap[t].samples
    /\ \/ /\ snap' = [snap EXCEPT ![t].pc = "idle", ![t].status = "HardwareIOFailure"]
          /\ arrayLock' = None
       \/ LET i == snap[t].i + 1 IN
          /\ snap' = [snap EXCEPT ![t].i = i,
                                  ![t].readings = Append(@, i),
                                  ![t].logs = @ + 1,
                                  ![t].pc = IF sleeps_between(i, snap[t].samples)
                                            THEN "sleep" ELSE "loop"]
          /\ UNCHANGED arrayLock
    /\ UNCHANGED nonSnapVars

\* line 160: time.sleep(interval) returns; the lock was held all along
snapshot_sleep(t) ==
    /\ snap[t].pc = "sleep"
    /\ snap' = [snap EXCEPT ![t].pc = "loop", ![t].sleeps = @ + 1]
    /\ UNCHANGED arrayLock
    /\ UNCHANGED nonSnapVars

\* lines 127, 162-166: range(1, samples + 1) is exhausted, the lock is
\* released and the readings are returned
snapshot_return(t) ==
    /\ snap[t].pc = "loop"
    /\ snap[t].i >= snap[t].samples
    /\ snap' = [snap EXCEPT ![t].pc = "idle", ![t].status = "ok",
                            ![t].reported = <<acqParams.attr>>]
    /\ arrayLock' = None
    /\ UNCHANGED nonSnapVars

snapshot(t) ==
    \/ snapshot_enter(t) \/ snapshot_lock(t) \/ snapshot_read(t)
    \/ snapshot_sleep(t) \/ snapshot_return(t)

NextSensors ==
    \/ sensor_startup
    \/ sensor_shutdown
    \/ \E t \in Requests : snapshot_enter(t)
    \/ \E t \in Requests : snapshot_lock(t)
    \/ \E t \in Requests : snapshot_read(t)
    \/ \E t \in Requests : snapshot_sleep(t)
    \/ \E t \in Requests : snapshot_return(t)

SpecSensors == InitPump /\ [][NextSensors]_vars

\* the snapshot call of thread t starts
SnapshotCalled(t) == snap[t].pc = "idle" /\ snap'[t] # snap[t]
\* 1..n as the list of reading indices
Indices(n) == [k \in 1..n |-> k]

\* C21: a snapshot call made before initialize raises NotInitialized without
\* taking a reading; a call that returns has taken exactly `samples`
\* readings, indexed 1..samples in the order taken, has handed one event per
\* reading to the log, and has slept between consecutive readings only (one
\* sleep fewer than readings, none when there is no reading).
C21_Snapshot ==
    /\ [][\A t \in Requests : SnapshotCalled(t) =>
            IF ~chans
            THEN /\ snap'[t].pc = "idle" /\ snap'[t].status = "NotInitialized"
                 /\ snap'[t].readings = <<>> /\ snap'[t].logs = 0
            ELSE snap'[t].pc = "lock"]_vars
    /\ [](\A t \in Requests : (snap[t].pc = "idle" /\ snap[t].status = "ok") =>
            /\ snap[t].readings = Indices(snap[t].samples)
            /\ snap[t].logs = snap[t].samples
            /\ snap[t].sleeps = IF snap[t].samples >= 1 THEN snap[t].samples - 1 ELSE 0)
\* a two-sample snapshot has returned, and another call was refused for want
\* of initialisation in an earlier process state
C21_Witness ==
    /\ snap["req1"].pc = "idle" /\ snap["req1"].status = "ok"
    /\ snap["req1"].samples = MaxSamples /\ snap["req1"].sleeps = MaxSamples - 1
    /\ Len(snap["req1"].readings) = MaxSamples

\* thread t is inside the locked region of snapshot
Sampling(t) == snap[t].pc \in {"loop", "sleep"}

\* C22: at most one snapshot call is inside the reading loop at any instant,
\* and while one call is inside it (its sleeps included) no other call
\* takes a reading.
C22_Serialized ==
    /\ [](\A t, u \in Requests : (Sampling(t) /\ Sampling(u)) => t = u)
    /\ [][\A t, u \in Requests :
            (t # u /\ Sampling(t) /\ Sampling(t)') =>
                ~(snap'[u].i > snap[u].i)]_vars
\* one call sleeps between its readings while the other waits for the lock
C22_Witness ==
    /\ snap["req1"].pc = "sleep" /\ snap["req1"].i = 1
    /\ snap["req2"].pc = "lock" /\ arrayLock = "req1"


\* ------------------------------------------- runs with unchecked arguments
\* hz and seconds as a caller that does not validate them passes them
\* (ControlCycleRequest constrains neither hz nor irrigate_seconds)
AnyRuns == {[seconds |-> s, hz |-> h] : s \in {Frac(1, 1), Frac(0, 1)},
                                        h \in {DEFAULT_HZ, 0, -1}}
\* pump_names of those runs: no pump named twice
DistinctNames == {<<"food", "water">>, <<"water">>}
Asked(r, d) == <<[hz |-> r.hz, seconds |-> r.seconds, dir |-> d]>>

\* StepperPump.run_for_seconds called with any hz, seconds and direction
call_run_any(t) ==
    /\ mgrHandle # NoHandle
    /\ \E p \in Pumps, r \in AnyRuns, d \in Directions :
        Enter(t, [RunArgs(p, r, d) EXCEPT !.asked = Asked(r, d)], "rfs_acquire")
    /\ UNCHANGED pumpVars
    /\ UNCHANGED nonPumpVars

\* PumpManager.run_multi_seconds called with any hz, seconds and direction
call_run_multi_any(t) ==
    /\ mgrHandle # NoHandle
    /\ \E ns \in DistinctNames, r \in AnyRuns, d \in Directions :
        Enter(t, [NoArgs EXCEPT !.op = "run_multi_seconds", !.names = ns,
                                !.seconds = r.seconds, !.hz = r.hz, !.dir = d,
                                !.asked = Asked(r, d)], "m_begin")
    /\ UNCHANGED pumpVars
    /\ UNCHANGED nonPumpVars

\* one caller at a time, so no run is refused for a held guard
NextRuns ==
    \/ startup
    \/ call_run_any("req1")
    \/ run_for_seconds("req1")
    \/ call_run_multi_any("req1")
    \/ run_multi_seconds("req1")

SpecRuns == InitPump /\ [][NextRuns]_vars

KnownDir(d) == Lower(d) \in FwdNames \cup RevNames
\* the three argument cases of the claim
BadHz(a) == a.hz <= 0 /\ KnownDir(a.dir)
BadDir(a) == ~KnownDir(a.dir)
NoTime(a) == a.hz > 0 /\ ~Positive(a.seconds) /\ KnownDir(a.dir)

\* C23: a run (of one pump or of several) with hz <= 0 ends with
\* InvalidParameter whatever its seconds, a run with an unrecognized
\* direction ends with InvalidDirection, a run with hz > 0 and seconds <= 0
\* returns normally, and none of the three ever writes a STEP line high.
C23_BadArguments ==
    \A t \in Requests :
        /\ (call[t].asked # <<>> /\ ~Positive(call[t].asked[1].seconds))
              => "STEP" \notin call[t].w
        /\ (call[t].asked # <<>> /\ (BadHz(call[t].asked[1]) \/ BadDir(call[t].asked[1])))
              => "STEP" \notin call[t].w
        /\ last[t].asked # <<>> =>
              LET a == last[t].asked[1] IN
              /\ BadHz(a) => last[t].status = "InvalidParameter"
              /\ BadDir(a) => last[t].status = "InvalidDirection"
              /\ NoTime(a) => last[t].status = "ok"


\* ------------------------------------------------------ multi-pump runs
\* thread t's multi-pump call holds the guard of every pump it names
HoldsAll(t) ==
    /\ acq[t] = call[t].names
    /\ \A p \in Range(call[t].names) : lock[p]
\* the STEP line of p changes level in this step
Edge(p) == line'[p].STEP # line[p].STEP

\* C24: run_multi_seconds writes no line before it holds every requested
\* guard: its entry and its acquisition loop leave all lines as they are, and
\* each turn of its setup loop runs with all guards held. Every step of its
\* pulse loop then leaves the STEP lines of all requested pumps at one level
\* and changes either all of them or none, so that they make the same number
\* of pulses.
C24_LockStep ==
    [][\A t \in Threads :
          /\ (m_begin(t) \/ m_acquire(t)) => line' = line
          /\ m_setup(t) => HoldsAll(t)
          /\ (m_high(t) \/ m_low(t)) =>
                /\ HoldsAll(t)
                /\ \A p, q \in Range(call[t].names) :
                      /\ line'[p].STEP = line'[q].STEP
                      /\ Edge(p) <=> Edge(q)]_vars
\* a two-pump run is in the high half-period of a pulse: both STEP lines are
\* high, both enables asserted
C24_Witness ==
    \E t \in Threads :
        /\ pc[t] = "m_low" /\ call[t].names = <<"food", "water">>
        /\ \A p \in Pumps : line[p].STEP = 1 /\ line[p].EN = 0 /\ lock[p]


\* thread t's multi-pump call, which held every requested guard, exits
MultiExits(t) ==
    /\ pc[t] = "m_finally" /\ pc'[t] = "idle"
    /\ acq[t] = call[t].names

\* C25: when a run_multi_seconds call that held every requested guard exits,
\* normally or with the exception of its setup or its pulse loop, every
\* requested pump's enable line is at the disabled level, its running flag
\* is false and its guard is free.
C25_Teardown ==
    [][\A t \in Requests :
          MultiExits(t) =>
             \A p \in Range(call[t].names) :
                /\ ~lock'[p] /\ ~is_running'[p]
                /\ hasEN[p] => line'[p].EN = 1]_vars


\* ----------------------------------------- control.control_cycle_continuous
\* the arguments of the cycle the loop calls, from the loop's own arguments
\* (kept in cycle[t]); the cycle returns into the loop
LoopArgs(irr) ==
    [NoArgs EXCEPT !.op = "control_cycle", !.pump = "water", !.seconds = irr,
                   !.hz = DEFAULT_HZ, !.dir = DEFAULT_DIR, !.ret = "cont_sleep"]

\* A request thread (api_control_run_continuous) enters the loop: line 243,
\* `while True`, and the first call of control_cycle_once
call_control_cycle_continuous(t) ==
    /\ mgrHandle # NoHandle
    /\ \E k \in VoteKs, irr \in IrrigateSeconds :
        /\ Enter(t, LoopArgs(irr), "cc_before")
        /\ cycle' = [cycle EXCEPT ![t] = [NoCycle EXCEPT !.threshold = DEFAULT_THRESH,
                                                         !.vote_k = k,
                                                         !.irrigate_seconds = irr]]
    /\ UNCHANGED pumpVars
    /\ UNCHANGED <<lightVars, clockVars, schedVars, lifeVars>>

\* lines 244-266: control_cycle_once is back. Its exception leaves the loop
\* (there is no handler); otherwise the result is printed and the thread
\* sleeps loop_interval
cont_sleep(t) ==
    /\ pc[t] = "cont_sleep"
    /\ Pc(t, IF last[t].status = "ok" THEN "cont_next" ELSE "idle")
    /\ UNCHANGED <<call, acq, exc, last, cycle>>
    /\ UNCHANGED pumpVars
    /\ UNCHANGED <<lightVars, clockVars, schedVars, lifeVars>>

\* lines 243-254: the sleep is over; `while True` tests nothing, and the next
\* call of control_cycle_once is made with the same arguments
cont_next(t) ==
    /\ pc[t] = "cont_next"
    /\ call' = [call EXCEPT ![t] = LoopArgs(cycle[t].irrigate_seconds)]
    /\ last' = [last EXCEPT ![t] = NoLast]
    /\ cycle' = [cycle EXCEPT ![t] = [NoCycle EXCEPT
                                        !.threshold = cycle[t].threshold,
                                        !.vote_k = cycle[t].vote_k,
                                        !.irrigate_seconds = cycle[t].irrigate_seconds]]
    /\ Pc(t, "cc_before")
    /\ UNCHANGED <<acq, exc>>
    /\ UNCHANGED pumpVars
    /\ UNCHANGED <<lightVars, clockVars, schedVars, lifeVars>>

control_cycle_continuous(t) == cont_sleep(t) \/ cont_next(t)

\* one irrigation loop, and the one stop signal the program has
\* (grow_scheduler._stop_flag) being set while it runs
NextLoop ==
    \/ startup
    \/ call_control_cycle_continuous("req1")
    \/ control_cycle_once("req1")
    \/ run_for_seconds("req1")
    \/ cont_sleep("req1")
    \/ cont_next("req1")
    \/ stop

SpecLoop == InitPump /\ [][NextLoop]_vars

\* C26: once the stop signal is set, the irrigation loop starts no further
\* cycle: when its sleep ends it returns instead of calling
\* control_cycle_once again.
C26_Cancellable ==
    [][\A t \in Requests :
          (stop_flag /\ pc[t] = "cont_next" /\ pc'[t] # pc[t]) => pc'[t] = "idle"]_vars


\* C27: whichever of the cycle's two log appends raise, control_cycle_once
\* returns normally and its result is whole: the "before" reading and the
\* decision taken on it and, when it irrigated, the "after" reading.
C27_LogFailureHarmless ==
    \A t \in Requests :
        cycle[t].logfail # {} =>
            /\ last[t].op = "control_cycle" /\ last[t].status = "ok"
            /\ cycle[t].before # <<>>
            /\ cycle[t].over = count_over(cycle[t].before, cycle[t].threshold)
            /\ cycle[t].triggered = (cycle[t].over >= cycle[t].vote_k)
            /\ cycle[t].irrigated => cycle[t].after # <<>>
\* a cycle that irrigated has returned although both appends raised
C27_Witness ==
    \E t \in Requests :
        /\ pc[t] = "idle" /\ cycle[t].logfail = LogSinks
        /\ cycle[t].irrigated /\ last[t].status = "ok"


\* ------------------------------------- repeated and lazy PumpManager.startup
MaxOpens == 2

\* The handle gpiochip_open returns: any handle when the manager has no chip
\* open, the next one when its earlier handle is still open
NewHandles == IF mgrHandle = NoHandle THEN Handles ELSE {mgrHandle + 1}

\* PumpManager.startup as written (lines 232-236), whatever self._handle is:
\* the chip is opened and the result stored, then every pump is initialized
\* with it. A line that an earlier, still open handle has claimed may refuse
\* the new claim (busy): the first pump has taken the new handle by then
\* (line 40) and its first claim raises
manager_startup(h, busy) ==
    /\ mgrHandle' = h
    /\ opens' = opens + 1
    /\ IF busy
       THEN /\ handle' = [handle EXCEPT ![PumpOrder[1]] = h]
            /\ UNCHANGED line
       ELSE /\ handle' = [p \in Pumps |-> IF Reached(p) THEN h ELSE handle[p]]
            /\ line' = [p \in Pumps |-> IF Reached(p) THEN initialize(p) ELSE line[p]]
manager_startup_raises(busy) ==
    IF busy THEN Exc("HardwareIOFailure", PumpOrder[1])
    ELSE IF \E p \in Pumps : initialize_raises(p) THEN Exc("KeyError", None)
    ELSE NoExc

\* startup called on a manager that is already started
startup_again ==
    /\ mgrHandle # NoHandle
    /\ opens < MaxOpens
    /\ \E h \in NewHandles, busy \in BOOLEAN : manager_startup(h, busy)
    /\ UNCHANGED <<hasEN, lock, is_running, calibration_rate, store, threadVars>>
    /\ UNCHANGED <<lightVars, clockVars, cycle, schedVars, sensorVars, lifeLast, stop_flag>>

\* run_pump_seconds (lines 324-326) up to the test of _ensure_manager_started
\* (line 321): `manager._handle is None` is read, with no lock held
ensure_manager_started(t) ==
    /\ \E r \in ValidRuns :
        Enter(t, RunArgs("water", r, DEFAULT_DIR),
              IF mgrHandle = NoHandle THEN "ensure_startup" ELSE "rfs_acquire")
    /\ UNCHANGED pumpVars
    /\ UNCHANGED nonPumpVars

\* line 322: manager.startup(), by a thread that found no handle; then
\* get_pump(pump).run_for_seconds
ensure_startup(t) ==
    /\ pc[t] = "ensure_startup"
    /\ \E h \in NewHandles, busy \in {b \in BOOLEAN : b => opens > 0} :
        /\ manager_startup(h, busy)
        /\ IF Raised(manager_startup_raises(busy))
           THEN Finish(t, manager_startup_raises(busy))
           ELSE /\ Pc(t, "rfs_acquire")
                /\ UNCHANGED <<call, acq, exc, last>>
    /\ UNCHANGED <<hasEN, lock, is_running, calibration_rate, store>>
    /\ UNCHANGED <<lightVars, clockVars, cycle, schedVars, sensorVars, lifeLast, stop_flag>>

\* the legacy wrappers called by two request threads, startup called again
\* by hand, and shutdown
NextLazy ==
    \/ \E t \in Requests : ensure_manager_started(t)
    \/ \E t \in Requests : ensure_startup(t)
    \/ \E t \in Requests : run_for_seconds(t)
    \/ startup_again
    \/ shutdown

SpecLazy == InitPump /\ [][NextLazy]_vars

\* C28: between a startup and the following shutdown the pump manager opens
\* the chip, and with it claims the pumps' lines, once: neither a repeated
\* startup call nor lazily starting wrappers running together open it a
\* second time.
C28_ClaimedOnce == opens <= 1


\* ----------------------------------------------- pumps without an enable line
\* C29: startup raises for no pump, with or without an "EN" entry in its pin
\* map, and leaves every pump bound to the manager's handle with STEP and
\* DIR low and every configured enable line at the disabled level; and no
\* call on a pump ends with the KeyError of a missing "EN" entry.
C29_StartupWithoutEnable ==
    /\ [][startup =>
            /\ \A p \in Pumps : ~initialize_raises(p)
            /\ \A p \in Pumps :
                  /\ handle'[p] = mgrHandle'
                  /\ line'[p].STEP = 0 /\ line'[p].DIR = 0
                  /\ hasEN[p] => line'[p].EN = 1]_vars
    /\ [](\A t \in Threads : last[t].status # "KeyError")

\* ------------------------------------------ hardware faults around a run
\* lines 100-101 when a gpio_write raises (lgpio.error): the DIR write, or,
\* with DIR written, the write that asserts the enable
rfs_setup_fault(t) ==
    /\ pc[t] = "rfs_setup"
    /\ LET p == call[t].pump IN
        /\ ~Raised(setup_raises(p, call[t].dir))
        /\ Truthy(handle[p])
        /\ \/ /\ UNCHANGED line
              /\ call' = [call EXCEPT ![t].dir = None]
           \/ /\ line' = set_direction(p, call[t].dir, line)
              /\ call' = [call EXCEPT ![t].dir = None, ![t].w = @ \cup {"DIR"}]
        /\ exc' = [exc EXCEPT ![t] = Exc("HardwareIOFailure", p)]
        /\ Pc(t, "rfs_finally")
    /\ UNCHANGED <<mgrHandle, handle, hasEN, lock, is_running, calibration_rate, store,
                   acq, last>>
    /\ UNCHANGED nonPumpVars

\* lines 103-106 when the gpio_write of _enable_driver(False) raises: the
\* exception leaves the finally block before `is_running = False` and
\* `_lock.release()`
rfs_finally_fault(t) ==
    /\ pc[t] = "rfs_finally"
    /\ LET p == call[t].pump IN
        /\ Truthy(handle[p]) /\ hasEN[p]
        /\ AfterRun(t, Exc("HardwareIOFailure", p))
    /\ UNCHANGED pumpVars
    /\ UNCHANGED nonPumpVars

\* one caller's timed runs, calibrations and volume dispenses, with writes
\* that may fail
NextFaults ==
    \/ startup
    \/ call_run_for_seconds("req1", Pumps, Directions)
    \/ call_calibrate("req1")
    \/ call_dispense_ml("req1", MlValues, {DEFAULT_DIR})
    \/ dispense_ml("req1")
    \/ run_for_seconds("req1")
    \/ rfs_setup_fault("req1")
    \/ rfs_finally_fault("req1")

SpecFaults == InitPump /\ [][NextFaults]_vars

\* thread t's run of a single pump, which held the pump's guard, exits
RunExits(t) == pc[t] \in RfsHolding /\ pc'[t] \notin RfsHolding

\* C30: when a run of a single pump that took the guard exits, returning or
\* raising, whichever write failed on the way, the pump's guard is free and
\* its running flag is false.
C30_NoGuardLeak ==
    [][\A t \in Requests :
          RunExits(t) => ~lock'[call[t].pump] /\ ~is_running'[call[t].pump]]_vars


\* ------------------------------------------- GrowLight.toggle, by threads
MaxToggles == 2

\* line 74, the argument of the call: `not self.is_on` is evaluated, with no
\* lock held, before set_state is entered
toggle_read(t) ==
    /\ pc[t] = "idle"
    /\ lightMgrHandle # NoHandle
    /\ last[t].done < MaxToggles
    /\ call' = [call EXCEPT ![t] = [NoArgs EXCEPT !.op = "toggle", !.target = <<~is_on>>]]
    /\ last' = [last EXCEPT ![t] = [NoLast EXCEPT !.done = last[t].done]]
    /\ Pc(t, "toggle_set")
    /\ UNCHANGED <<acq, exc>>
    /\ UNCHANGED <<pumpVars, lightVars, clockVars, cycle, schedVars, lifeVars>>

\* lines 51-70 for that argument: the handle test, then under the lock the
\* relay write and the assignment of is_on
toggle_set(t) ==
    /\ pc[t] = "toggle_set"
    /\ LET on == call[t].target[1] IN
        IF set_state_raises
        THEN /\ last' = [last EXCEPT ![t] = [NoLast EXCEPT !.op = "toggle",
                                                           !.status = "NotInitialized",
                                                           !.done = last[t].done]]
             /\ UNCHANGED <<relay, is_on>>
        ELSE /\ relay' = level_for_state(on)
             /\ is_on' = on
             /\ last' = [last EXCEPT ![t] = [NoLast EXCEPT !.op = "toggle",
                                                           !.status = "ok",
                                                           !.done = last[t].done + 1]]
    /\ call' = [call EXCEPT ![t] = NoArgs]
    /\ Pc(t, "idle")
    /\ UNCHANGED <<acq, exc>>
    /\ UNCHANGED <<lightMgrHandle, lightHandle, mode, day_start, day_end, lightLast>>
    /\ UNCHANGED <<pumpVars, clockVars, cycle, schedVars, lifeVars>>

\* toggle requests of two threads on a started light, and no other light
\* operation
NextToggle ==
    \/ lifespan_light_startup
    \/ \E t \in Requests : toggle_read(t)
    \/ \E t \in Requests : toggle_set(t)

SpecToggle == InitPump /\ [][NextToggle]_vars

\* the toggle calls that have returned normally
Toggled == last["req1"].done + last["req2"].done

\* C31: when every toggle call has returned, the light (off at startup) is
\* on exactly when an odd number of toggle calls have returned, and the
\* relay is at the level of that state.
C31_ToggleParity ==
    (lightHandle # NoHandle /\ \A t \in Requests : pc[t] = "idle") =>
        /\ is_on = (Toggled % 2 = 1)
        /\ relay = level_for_state(is_on)


\* ------------------------------------------------ api_sensors, by threads
\* routers/sensors.py lines 11-15 (and snapshot_sensors, lines 211-213): the
\* request's addr and gain are assigned to the shared array, no lock held
api_sensors_set(t) ==
    /\ snap[t].pc = "idle"
    /\ chans
    /\ \E p \in Params :
        /\ acqParams' = [acqParams EXCEPT !.attr = p]
        /\ snap' = [snap EXCEPT ![t] = [NoSnap EXCEPT !.pc = "call", !.asked = <<p>>]]
    /\ UNCHANGED arrayLock
    /\ UNCHANGED <<pumpVars, threadVars, lightVars, clockVars, cycle, schedVars,
                   sensorMgrHandle, arrayHandle, chans, lifeLast, stop_flag, opens>>

\* lines 16-21: snapshot is called with the request's samples (ge=1)
api_sensors_snapshot(t) ==
    /\ snap[t].pc = "call"
    /\ \E n \in 1..MaxSamples :
        snap' = [snap EXCEPT ![t].samples = n, ![t].pc = "lock"]
    /\ UNCHANGED arrayLock
    /\ UNCHANGED nonSnapVars

NextAcquire ==
    \/ sensor_startup
    \/ \E t \in Requests : api_sensors_set(t)
    \/ \E t \in Requests : api_sensors_snapshot(t)
    \/ \E t \in Requests : snapshot_lock(t)
    \/ \E t \in Requests : snapshot_read(t)
    \/ \E t \in Requests : snapshot_sleep(t)
    \/ \E t \in Requests : snapshot_return(t)

SpecAcquire == InitPump /\ [][NextAcquire]_vars

\* C32: the addr and gain in the result a request gets back are the ones it
\* asked for, and the ones the ADC was working with.
C32_ReportedParams ==
    \A t \in Requests :
        (snap[t].asked # <<>> /\ snap[t].pc = "idle" /\ snap[t].status = "ok") =>
            /\ snap[t].reported = snap[t].asked
            /\ acqParams.ads = snap[t].asked


\* C33: the rate in the result of a dispense_ml call that returned is the
\* rate its duration was computed with: seconds * rate = ml.
C33_ResultRate ==
    \A t \in Threads :
        (last[t].op = "dispense_ml" /\ last[t].status = "ok") =>
            last[t].seconds[1] * last[t].rate = last[t].ml * last[t].seconds[2]


\* ------------------------------------------------- stopping the scheduler
\* the steps of the scheduler's thread: a tick, its dose, the loop's exit
scheduler_thread ==
    \/ tick_step \/ dispense_ml(S) \/ run_for_seconds(S) \/ run_forever_exit

NextStop ==
    \/ startup
    \/ set_pump_calibration({FOOD_PUMP_NAME}, {2})
    \/ dispense_ml(S) \/ run_for_seconds(S)
    \/ tick_step
    \/ advance_clock
    \/ set_plant_status
    \/ run_forever_exit
    \/ stop

\* the scheduler's thread is scheduled as long as it has a step to take
SpecStop == InitSched /\ [][NextStop]_vars /\ WF_vars(scheduler_thread)

\* the scheduler's thread is inside a tick
InTick == pc[S] \notin {"idle", "exited", "dead"}

\* C34: with the stop signal set the scheduler's loop begins no tick; a tick
\* in progress when the signal is set goes on step by step, its dose
\* included, and is not cut short by the loop's exit; and the thread then
\* leaves its loop (or ends with the exception of that tick).
C34_TickGranularStop ==
    /\ [][(stop_flag /\ pc[S] = "idle") => pc'[S] \in {"idle", "exited"}]_vars
    /\ [][(stop_flag /\ InTick) => pc'[S] # "exited"]_vars
    /\ [][(stop /\ InTick) => (pc' = pc /\ call' = call /\ tick' = tick /\ line' = line)]_vars
    /\ (stop_flag ~> pc[S] \in {"exited", "dead"})
\* the signal was set while the dose of a tick was pulsing
C34_Witness ==
    /\ stop_flag /\ pc[S] = "rfs_low" /\ call[S].op = "dispense_ml"


\* the dose of the current tick is over, and the tick found the pump free
\* and calibrated: its dispense_ml call was refused neither for a held guard
\* nor for a missing rate
Attempted ==
    /\ pc[S] = "t_dosed"
    /\ last[S].status \notin {"AlreadyRunning", "CalibrationMissing"}

\* C35: when a tick has found the dose due and the pump free and calibrated,
\* then, as long as the plant stays germinated and the scheduler keeps
\* ticking, the date of that day is recorded as dosed before the day is over.
C35_DoseLiveness ==
    \A d \in 1..MaxDay :
        (Attempted /\ tick.day = d /\ today = d)
            ~> \/ last_food_date = d
               \/ today # d \/ get_plant_status # "germinated"
               \/ stop_flag \/ pc[S] = "dead"


\* C36: the scheduler completes at most one dispense of the daily volume per
\* calendar date: when a dose of a tick has run to its end, no earlier dose
\* was completed for the date of that tick.
C36_OneDosePerDate ==
    [][(t_dosed /\ last[S].status = "ok") => tick.ran # tick.day]_vars


-----------------------------------------------------------------------------
\* The pin assignment

\* settings.PUMP_PINS and settings.LIGHT_PIN, in BCM numbering
PUMP_PINS == [food  |-> [STEP |-> 27, DIR |-> 22],
              water |-> [STEP |-> 16, DIR |-> 26]]
LIGHT_PIN == 26

\* A step of one of the pump operations
PumpOperation ==
    \E t \in Requests : run_for_seconds(t) \/ dispense_ml(t) \/ run_multi_seconds(t)

\* C37: no pump operation writes the GPIO line of the grow-light relay: a
\* line whose level a run changes is not the line LIGHT_PIN names.
C37_RelayUntouched ==
    [][PumpOperation =>
          \A p \in Pumps : \A r \in DOMAIN PUMP_PINS[p] :
              line'[p][r] # line[p][r] => PUMP_PINS[p][r] # LIGHT_PIN]_vars


-----------------------------------------------------------------------------
\* After PumpManager.shutdown

\* shutdown has returned and no startup followed: the manager holds no
\* handle, while the pumps still hold the one startup bound them to
\* (shutdown, lines 238-244, resets only PumpManager._handle)
PostShutdown == mgrHandle = NoHandle /\ \E p \in Pumps : handle[p] # NoHandle

\* the lifespan's startup and shutdown of the pump manager around a ticking
\* scheduler, whose thread stop() does not wait for and whose doses call
\* manager.get_pump(p).dispense_ml with no _ensure_manager_started on the
\* way; a write to the closed chip may raise
NextQuiesce ==
    \/ startup
    \/ set_pump_calibration({FOOD_PUMP_NAME}, {2})
    \/ tick_step
    \/ advance_clock
    \/ set_plant_status
    \/ run_forever_exit
    \/ stop
    \/ shutdown
    \/ dispense_ml(S) \/ run_for_seconds(S)
    \/ rfs_setup_fault(S)

SpecQuiesce == InitSched /\ [][NextQuiesce]_vars

\* C38: from the return of shutdown to the next startup no pump line is
\* written, so every enable line stays disabled, and a run that reaches its
\* setup in that time, requested afterwards or in flight since before, fails
\* as not initialized.
C38_Quiescent ==
    /\ [][(PostShutdown /\ mgrHandle' = NoHandle) => line' = line]_vars
    /\ [][\A t \in Threads :
            (PostShutdown /\ pc[t] = "rfs_setup" /\ pc'[t] # "rfs_setup")
                => exc'[t].kind = "NotInitialized"]_vars


-----------------------------------------------------------------------------
\* Chip handle 0

\* the lifespan's startups and shutdowns of the pumps and the light, with
\* runs and light switches requested in between
NextZero ==
    \/ startup
    \/ lifespan_light_startup
    \/ call_run_for_seconds("req1", {FOOD_PUMP_NAME}, {DEFAULT_DIR})
    \/ run_for_seconds("req1")
    \/ \E on \in BOOLEAN : serve_set_light_state(on)
    \/ shutdown
    \/ light_shutdown

SpecZero == InitPump /\ [][NextZero]_vars

\* C39: being initialized depends on startup having bound a handle, not on
\* the handle's number: a run ends as not initialized only on a pump no
\* startup bound, and with the light bound neither set_state nor
\* LightManager.shutdown ends as not initialized.
C39_BoundIsInitialized ==
    /\ \A t \in Requests :
          last[t].status = "NotInitialized" => handle[last[t].pump] = NoHandle
    /\ lightHandle # NoHandle =>
          /\ lightLast.status # "NotInitialized"
          /\ lifeLast.light # "NotInitialized"


-----------------------------------------------------------------------------
\* start() after stop()

\* the scheduler stopped and started again, its thread scheduled fairly;
\* nothing obliges anyone to call start() a second time
SpecStart == InitSched /\ [][NextRestart]_vars /\ WF_vars(scheduler_thread)

\* a scheduler loop is running and will go on to further ticks
Ticking == thread_alive /\ ~stop_flag

\* C40: when start() was called after stop(), also with the previous loop's
\* thread still alive, there is eventually a scheduler loop that goes on
\* ticking.
C40_StartAfterStop == tick.ignored ~> Ticking

=============================================================================
